---- MODULE Spec2Model ----
(***************************************************************************)
(* Retrieval pipeline of the RAG service: RetrievalService.queryKnowledge  *)
(* (hybrid search, reciprocal rank fusion, LLM re-ranking with fallback    *)
(* merge, parent-context enrichment) and the rerankResults gateway.        *)
(*                                                                         *)
(* One invocation of queryKnowledge is modelled; every action is the code  *)
(* that runs between two await points of that invocation.                  *)
(***************************************************************************)
EXTENDS Integers, Sequences, FiniteSets, TLC

\* ------------------------------------------------------------------ bounds
MaxLimit == 3   \* largest `limit` a caller passes
MaxBranch == 3  \* longest list a search branch returns
MaxReply == 2   \* longest JSON array the relevance judge returns

\* ------------------------------------------------------------- the store
\* Chunks that the two search branches can return.
Ids == {"A", "B", "C"}
\* Strings the judge may return that are the id of no candidate.
UnknownIds == {"X"}

VARIABLE storeConfig   \* which content knowledge_base_chunks has

\* knowledge_base_chunks: metadata.type and parentId of every stored chunk.
\* A is a child whose parent P is stored, B is a child whose parent Q is
\* missing (an orphan), C is a top-level chunk, P is a parent chunk.
OrphanStore ==
    [ A |-> [type |-> "child",  parentid |-> "P"],
      B |-> [type |-> "child",  parentid |-> "Q"],
      C |-> [type |-> "parent", parentid |-> "null"],
      P |-> [type |-> "parent", parentid |-> "null"] ]

\* A and B are children of the same stored parent P, C is a child row whose
\* parentId is NULL.
SharedParentStore ==
    [ A |-> [type |-> "child",  parentid |-> "P"],
      B |-> [type |-> "child",  parentid |-> "P"],
      C |-> [type |-> "child",  parentid |-> "null"],
      P |-> [type |-> "parent", parentid |-> "null"] ]

StoreConfigs == {"orphan", "shared"}

Store == IF storeConfig = "shared" THEN SharedParentStore ELSE OrphanStore

\* ---------------------------------------------------------------- helpers
Min(a, b) == IF a < b THEN a ELSE b

Range(s) == {s[i] : i \in 1..Len(s)}

\* Array.prototype.slice(0, n) for n >= 0
Slice(s, n) == SubSeq(s, 1, Min(n, Len(s)))

\* Array.prototype.map(d => d.id)
IdsOf(documents) == [i \in 1..Len(documents) |-> documents[i].id]

\* All duplicate-free sequences over S of length at most n: the rows a
\* single SELECT over knowledge_base_chunks returns (id is the primary key).
DistinctSeqs(S, n) ==
    UNION {{s \in [1..m -> S] : \A i, j \in 1..m : i # j => s[i] # s[j]} : m \in 0..n}

\* All sequences over S of length at most n
SeqsUpTo(S, n) == UNION {[1..m -> S] : m \in 0..n}

\* -------------------------------------------------- exact rational numbers
\* A fusion score is a sum of at most two unit fractions; it is kept as an
\* exact pair <<numerator, denominator>>.  The code adds IEEE doubles: for the
\* list lengths explored here two different sums differ by more than 1e-6,
\* far above the rounding error, and two equal sums are the same two
\* addends in either order, so doubles and exact fractions compare alike.
RatAdd(a, b) == <<a[1] * b[2] + b[1] * a[2], a[2] * b[2]>>
RatEq(a, b) == a[1] * b[2] = b[1] * a[2]
RatLess(a, b) == a[1] * b[2] < b[1] * a[2]

\* --------------------------------------------------------------- Map<K,V>
\* A JavaScript Map: iteration order is the order of first insertion.
EmptyMap == [keys |-> <<>>, val |-> <<>>]
MapHas(m, key) == key \in Range(m.keys)
MapSet(m, key, v) ==
    IF MapHas(m, key)
    THEN [keys |-> m.keys, val |-> [m.val EXCEPT ![key] = v]]
    ELSE [keys |-> Append(m.keys, key),
          val |-> [x \in Range(m.keys) \cup {key} |->
                      IF x = key THEN v ELSE m.val[x]]]
\* Array.from(map.entries())
MapEntries(m) == [i \in 1..Len(m.keys) |-> <<m.keys[i], m.val[m.keys[i]]>>]

\* ------------------------------------------------------------ performRRF
\* Standard RRF constant
k == 60

\* Mutant: the rank is taken as the zero-based index itself, 1 / (k + index)
RRFContribution_NoPlusOne(index) == <<1, k + index>>

\* 1 / (k + index + 1), index being the zero-based forEach index
RRFContribution(index) == <<1, k + index + 1>>

\* Mutant: scores.set(doc.id, 1 / (k + index + 1)), the earlier
\* contribution is overwritten instead of summed
RECURSIVE AccumulateScores_Overwrite(_, _, _)
AccumulateScores_Overwrite(scoresMap, results, i) ==
    IF i > Len(results) THEN scoresMap
    ELSE AccumulateScores_Overwrite(
            MapSet(scoresMap, results[i].id, RRFContribution(i - 1)), results, i + 1)

\* results.forEach((doc, index) =>
\*     scores.set(doc.id, (scores.get(doc.id) || 0) + 1 / (k + index + 1)))
\* i is the one-based position, so the forEach index is i - 1.
RECURSIVE AccumulateScores(_, _, _)
AccumulateScores(scoresMap, results, i) ==
    IF i > Len(results) THEN scoresMap
    ELSE LET id == results[i].id
             prev == IF MapHas(scoresMap, id) THEN scoresMap.val[id] ELSE <<0, 1>>
         IN AccumulateScores(
                MapSet(scoresMap, id, RatAdd(prev, RRFContribution(i - 1))),
                results, i + 1)

\* vectorResults.forEach(doc => docs.set(doc.id, doc))
RECURSIVE CollectVectorDocs(_, _, _)
CollectVectorDocs(docsMap, results, i) ==
    IF i > Len(results) THEN docsMap
    ELSE CollectVectorDocs(MapSet(docsMap, results[i].id, results[i]), results, i + 1)

\* Mutant: docs.set(doc.id, doc) without the `if (!docs.has(doc.id))`
RECURSIVE CollectKeywordDocs_Overwrite(_, _, _)
CollectKeywordDocs_Overwrite(docsMap, results, i) ==
    IF i > Len(results) THEN docsMap
    ELSE CollectKeywordDocs_Overwrite(MapSet(docsMap, results[i].id, results[i]),
                                      results, i + 1)

\* keywordResults.forEach(doc => { if (!docs.has(doc.id)) docs.set(doc.id, doc) })
RECURSIVE CollectKeywordDocs(_, _, _)
CollectKeywordDocs(docsMap, results, i) ==
    IF i > Len(results) THEN docsMap
    ELSE CollectKeywordDocs(
            IF MapHas(docsMap, results[i].id) THEN docsMap
            ELSE MapSet(docsMap, results[i].id, results[i]),
            results, i + 1)

\* The scores map after both forEach loops (vector first, then keyword).
RRFScores(vec, kw) == AccumulateScores(AccumulateScores(EmptyMap, vec, 1), kw, 1)

\* The docs map after both forEach loops.
RRFDocs(vec, kw) == CollectKeywordDocs(CollectVectorDocs(EmptyMap, vec, 1), kw, 1)

\* Mutant: an unstable sort, an entry is placed before entries of equal score
RECURSIVE InsertByScore_Unstable(_, _)
InsertByScore_Unstable(sorted, e) ==
    IF sorted = <<>> THEN <<e>>
    ELSE IF ~RatLess(e[2], Head(sorted)[2]) THEN <<e>> \o sorted
    ELSE <<Head(sorted)>> \o InsertByScore_Unstable(Tail(sorted), e)

\* Array.prototype.sort((a, b) => b.score - a.score) is a stable sort:
\* an entry is placed after every entry whose score is not lower than its own.
RECURSIVE InsertByScore(_, _)
InsertByScore(sorted, e) ==
    IF sorted = <<>> THEN <<e>>
    ELSE IF RatLess(Head(sorted)[2], e[2]) THEN <<e>> \o sorted
    ELSE <<Head(sorted)>> \o InsertByScore(Tail(sorted), e)

RECURSIVE SortDescending(_, _, _)
SortDescending(entries, i, acc) ==
    IF i > Len(entries) THEN acc
    ELSE SortDescending(entries, i + 1, InsertByScore(acc, entries[i]))

\* Mutant: the sorted entries are not cut to `limit`
performRRF_NoSlice(vec, kw, n) ==
    LET sorted == SortDescending(MapEntries(RRFScores(vec, kw)), 1, <<>>)
        docsMap == RRFDocs(vec, kw)
    IN [i \in 1..Len(sorted) |-> docsMap.val[sorted[i][1]]]

\* Array.from(scores.entries()).sort(...).slice(0, limit).map(([id]) => docs.get(id))
performRRF(vec, kw, n) ==
    LET sorted == SortDescending(MapEntries(RRFScores(vec, kw)), 1, <<>>)
        top == Slice(sorted, n)
        docsMap == RRFDocs(vec, kw)
    IN [i \in 1..Len(top) |-> docsMap.val[top[i][1]]]

\* ---------------------------------------------------------- rerankResults
\* The judge's reply is either a rejected call or a text.  A text is a
\* sequence of tokens: code-fence markers and at most one payload.
FenceJson == [kind |-> "fence_json", items |-> <<>>]
Fence == [kind |-> "fence", items |-> <<>>]
Garbage == [kind |-> "garbage", items |-> <<>>]   \* not JSON at all
Scalar == [kind |-> "scalar", items |-> <<>>]     \* JSON string, number, null, boolean
Object == [kind |-> "object", items |-> <<>>]     \* JSON object
Array(items) == [kind |-> "array", items |-> items]

Payloads ==
    {Garbage, Scalar, Object}
        \cup {Array(items) : items \in SeqsUpTo(Ids \cup UnknownIds, MaxReply)}

JudgeTexts ==
    {<<>>} \cup {<<p>> : p \in Payloads} \cup {<<FenceJson, p, Fence>> : p \in Payloads}

JudgeReplies ==
    {[threw |-> TRUE, text |-> <<>>]}
        \cup {[threw |-> FALSE, text |-> t] : t \in JudgeTexts}

\* text.replace(/```json/g, '').replace(/```/g, '').trim()
StripFences(text) == SelectSeq(text, LAMBDA t : t.kind \notin {"fence_json", "fence"})

\* JSON.parse: a SyntaxError unless the text is exactly one JSON value
JSONParse(tokens) ==
    IF Len(tokens) = 1 /\ tokens[1].kind # "garbage"
    THEN [ok |-> TRUE, value |-> tokens[1]]
    ELSE [ok |-> FALSE, value |-> Garbage]

\* documents.slice(0, topN).map(d => d.id)
FallbackIds(documents, topN) == IdsOf(Slice(documents, topN))

\* Mutant: the parsed array is returned without validating its ids
RerankTry_NoValidation(reply, documents, topN) ==
    IF reply.threw
    THEN [raised |-> TRUE, value |-> <<>>]
    ELSE LET parsed == JSONParse(StripFences(reply.text))
         IN IF ~parsed.ok \/ parsed.value.kind # "array"
            THEN [raised |-> TRUE, value |-> <<>>]
            ELSE [raised |-> FALSE, value |-> Slice(parsed.value.items, topN)]

\* The body of the try block: the ids it returns, or the exception it raises.
RerankTry(reply, documents, topN) ==
    IF reply.threw
    THEN [raised |-> TRUE, value |-> <<>>]          \* generateContent rejects
    ELSE LET parsed == JSONParse(StripFences(reply.text))
         IN IF ~parsed.ok
            THEN [raised |-> TRUE, value |-> <<>>]  \* SyntaxError
            ELSE IF parsed.value.kind # "array"
            THEN [raised |-> TRUE, value |-> <<>>]  \* TypeError: parsed.filter is not a function
            ELSE LET validIds == Range(IdsOf(documents))
                     validatedIds == SelectSeq(parsed.value.items, LAMBDA id : id \in validIds)
                 IN IF Len(validatedIds) = 0
                    THEN [raised |-> FALSE, value |-> FallbackIds(documents, topN)]
                    ELSE [raised |-> FALSE, value |-> Slice(validatedIds, topN)]

\* Mutant: no catch block, the exception reaches the caller
rerankResults_NoCatch(reply, documents, topN) == RerankTry(reply, documents, topN)

\* try { ... } catch (error) { return documents.slice(0, topN).map(d => d.id) }
rerankResults(reply, documents, topN) ==
    LET r == RerankTry(reply, documents, topN)
    IN IF r.raised
       THEN [raised |-> FALSE, value |-> FallbackIds(documents, topN)]
       ELSE r

\* The columns of a row: searchVector selects `1 - (embedding <-> $1) as
\* similarity`, searchKeyword selects `ts_rank(...) as rank` and no similarity.
HasSimilarity(doc) == doc.source_type = "vector"

\* ------------------------------------------- queryKnowledge: fallback merge
\* rerankedIds.map(id => topCandidates.find(doc => doc.id === id))
\*            .filter(doc => doc !== undefined)
MapToDocs(ids, topCandidates) ==
    LET found == SelectSeq(ids, LAMBDA id : id \in Range(IdsOf(topCandidates)))
        find(id) == topCandidates[CHOOSE i \in 1..Len(topCandidates) :
                        /\ topCandidates[i].id = id
                        /\ \A j \in 1..(i - 1) : topCandidates[j].id # id]
    IN [i \in 1..Len(found) |-> find(found[i])]

\* Mutant: no `if (finalResults.length >= limit) break`
RECURSIVE FillLoop_NoBreak(_, _, _, _, _)
FillLoop_NoBreak(final, existingIds, topCandidates, i, n) ==
    IF i > Len(topCandidates) THEN final
    ELSE IF topCandidates[i].id \notin existingIds
    THEN FillLoop_NoBreak(Append(final, topCandidates[i]),
                  existingIds \cup {topCandidates[i].id}, topCandidates, i + 1, n)
    ELSE FillLoop_NoBreak(final, existingIds, topCandidates, i + 1, n)

\* for (const doc of topCandidates) {
\*     if (finalResults.length >= limit) break;
\*     if (!existingIds.has(doc.id)) { finalResults.push(doc); existingIds.add(doc.id); } }
RECURSIVE FillLoop(_, _, _, _, _)
FillLoop(final, existingIds, topCandidates, i, n) ==
    IF i > Len(topCandidates) \/ Len(final) >= n THEN final
    ELSE IF topCandidates[i].id \notin existingIds
    THEN FillLoop(Append(final, topCandidates[i]),
                  existingIds \cup {topCandidates[i].id}, topCandidates, i + 1, n)
    ELSE FillLoop(final, existingIds, topCandidates, i + 1, n)

\* Mutant: existingIds starts empty, ids already in the list are not skipped
FallbackMerge_NoSkip(final, topCandidates, n) ==
    IF Len(final) < n
    THEN FillLoop(final, {}, topCandidates, 1, n)
    ELSE final

\* if (finalResults.length < limit) { ...fill... }
FallbackMerge(final, topCandidates, n) ==
    IF Len(final) < n
    THEN FillLoop(final, Range(IdsOf(final)), topCandidates, 1, n)
    ELSE final

\* ------------------------------------------------ enrichWithParentContext
IsChildWithParent(doc) ==
    Store[doc.id].type = "child" /\ Store[doc.id].parentid # "null"

\* [...new Set(results.filter(child with parentid).map(r => r.parentid))]
ParentIdsOf(results) ==
    {Store[results[i].id].parentid : i \in {j \in 1..Len(results) : IsChildWithParent(results[j])}}

\* SELECT id, content, metadata FROM knowledge_base_chunks WHERE id = ANY($1)
LookupParents(parentIds) == parentIds \cap DOMAIN Store

\* The enrichWithParentContext of services/retrieval.service.ts: its loop
\* awaits one `SELECT content, metadata ... WHERE id = $1` for every result
\* that is a child with a parentid.
PerChildLookupCount(results) ==
    Cardinality({i \in 1..Len(results) : IsChildWithParent(results[i])})

\* Number of store queries enrichWithParentContext issues: none when there is
\* no parent id (early return), otherwise the single batched SELECT.
ParentLookupCount(results) == IF ParentIdsOf(results) = {} THEN 0 ELSE 1

\* results.map(result => { ...attach parent_content, parent_metadata... })
\* The content of a chunk is represented by its id, its metadata by its type.
AttachParents(results, parentMap) ==
    [i \in 1..Len(results) |->
        LET resolves == IsChildWithParent(results[i])
                            /\ Store[results[i].id].parentid \in parentMap
        IN [id |-> results[i].id,
            source_type |-> results[i].source_type,
            parent_content |->
                IF resolves THEN Store[results[i].id].parentid ELSE "undefined",
            parent_metadata |->
                IF resolves THEN Store[Store[results[i].id].parentid].type
                ELSE "undefined"]]

\* Mutant: parent.content is read without the `if (parent)` guard, so a
\* child whose parent is not in parentMap raises a TypeError
enrichWithParentContext_NoParentGuard(results) ==
    LET parentMap == LookupParents(ParentIdsOf(results))
    IN [raised |-> \E i \in 1..Len(results) :
                      /\ IsChildWithParent(results[i])
                      /\ Store[results[i].id].parentid \notin parentMap,
        value |-> AttachParents(results, parentMap)]

\* enrichWithParentContext: the list it resolves with; it has no throw of
\* its own, a parent missing from parentMap is skipped by `if (parent)`.
enrichWithParentContext(results) ==
    [raised |-> FALSE,
     value |-> AttachParents(results, LookupParents(ParentIdsOf(results)))]

\* ------------------------------------------------- searchKeyword: cleanQuery
\* A query text is a sequence of characters.
OperatorChars == {"|", "&", ":", "*", "!"}

\* Mutant: the operator characters are left in the text
ReplaceOperators_Keep(text) == text

\* query.replace(/[|&:*!]/g, ' ')
ReplaceOperators(text) ==
    [i \in 1..Len(text) |-> IF text[i] \in OperatorChars THEN " " ELSE text[i]]

\* String.prototype.trim
RECURSIVE Trim(_)
Trim(text) ==
    IF text = <<>> THEN text
    ELSE IF Head(text) = " " THEN Trim(Tail(text))
    ELSE IF text[Len(text)] = " " THEN Trim(SubSeq(text, 1, Len(text) - 1))
    ELSE text

\* String.prototype.split(/\s+/): the pieces between runs of whitespace;
\* ''.split(/\s+/) is [''].  `piece` is the piece being read.
RECURSIVE SplitWhitespace(_, _, _)
SplitWhitespace(text, i, piece) ==
    IF i > Len(text) THEN <<piece>>
    ELSE IF text[i] = " "
    THEN IF i > 1 /\ text[i - 1] = " "
         THEN SplitWhitespace(text, i + 1, piece)
         ELSE <<piece>> \o SplitWhitespace(text, i + 1, <<>>)
    ELSE SplitWhitespace(text, i + 1, Append(piece, text[i]))

\* Array.prototype.join(' & ')
RECURSIVE Join(_)
Join(pieces) ==
    IF pieces = <<>> THEN <<>>
    ELSE IF Len(pieces) = 1 THEN pieces[1]
    ELSE pieces[1] \o <<" ", "&", " ">> \o Join(Tail(pieces))

\* query.replace(/[|&:*!]/g, ' ').trim().split(/\s+/).join(' & ')
CleanQuery(text) == Join(SplitWhitespace(Trim(ReplaceOperators(text)), 1, <<>>))

\* The texts expandQuery hands on: the empty text, a text of operator
\* characters and blanks only, and a text with two terms.
ExpandedQueries ==
    { <<>>, <<" ", "|", "&", " ", ":", "*", "!">>,
      <<" ", "a", "|", " ", "b", "!">> }

\* ------------------------------------------------------------------ state
\* ------------------------------------------------------- QueryClassifier
\* A query is a string; SubSeq(text, i, i) is its i-th character.
UpperCase == <<"A", "B", "C", "D", "E", "F", "G", "H", "I", "J", "K", "L", "M",
               "N", "O", "P", "Q", "R", "S", "T", "U", "V", "W", "X", "Y", "Z">>
LowerCase == <<"a", "b", "c", "d", "e", "f", "g", "h", "i", "j", "k", "l", "m",
               "n", "o", "p", "q", "r", "s", "t", "u", "v", "w", "x", "y", "z">>
Digits == {"0", "1", "2", "3", "4", "5", "6", "7", "8", "9"}

\* \s and \w of the regular expressions
SpaceChars == {" "}
WordChars == Range(UpperCase) \cup Range(LowerCase) \cup Digits \cup {"_"}

LowerChar(c) ==
    IF c \in Range(UpperCase)
    THEN LowerCase[CHOOSE i \in 1..26 : UpperCase[i] = c]
    ELSE c

\* String.prototype.toLowerCase
RECURSIVE toLowerCase(_)
toLowerCase(text) ==
    IF text = "" THEN ""
    ELSE LowerChar(SubSeq(text, 1, 1)) \o toLowerCase(SubSeq(text, 2, Len(text)))

\* String.prototype.trim
RECURSIVE TrimString(_)
TrimString(text) ==
    IF text = "" THEN ""
    ELSE IF SubSeq(text, 1, 1) \in SpaceChars THEN TrimString(SubSeq(text, 2, Len(text)))
    ELSE IF SubSeq(text, Len(text), Len(text)) \in SpaceChars
    THEN TrimString(SubSeq(text, 1, Len(text) - 1))
    ELSE text

\* Regular-expression matching by sets of positions: a position p stands for
\* "the next character to read is the p-th".  Every expression is tested on
\* normalizedQuery, which has no upper-case letter, and is written in lower
\* case, so its /i flag changes no outcome.
MatchesAt(text, p, literal) ==
    /\ p + Len(literal) - 1 <= Len(text)
    /\ SubSeq(text, p, p + Len(literal) - 1) = literal

\* (a|b|...) read from one of the positions in P
AfterAlt(text, P, alternatives) ==
    UNION {{p + Len(a) : a \in {b \in alternatives : MatchesAt(text, p, b)}} : p \in P}

\* \s+ or \w+ read from one of the positions in P: one or more characters of
\* the class (with backtracking, every length of the run)
AfterRun(text, P, class) ==
    {q \in 2..(Len(text) + 1) :
        \E p \in P : p < q /\ \A i \in p..(q - 1) : SubSeq(text, i, i) \in class}

\* an unanchored expression may start anywhere
AnyPosition(text) == 1..(Len(text) + 1)

\* /^(who|what|where|when|which)\s+(is|are|was|were|did)/i
Pattern1(text) ==
    AfterAlt(text,
        AfterRun(text, AfterAlt(text, {1}, {"who", "what", "where", "when", "which"}),
                 SpaceChars),
        {"is", "are", "was", "were", "did"}) # {}

\* /what\s+(did|does|has)\s+\w+\s+(say|said|tell|told|speak|spoke)/i
Pattern2(text) ==
    LET what == AfterAlt(text, AnyPosition(text), {"what"})
        aux == AfterAlt(text, AfterRun(text, what, SpaceChars), {"did", "does", "has"})
        name == AfterRun(text, AfterRun(text, aux, SpaceChars), WordChars)
    IN AfterAlt(text, AfterRun(text, name, SpaceChars),
                {"say", "said", "tell", "told", "speak", "spoke"}) # {}

\* /(quote|dialogue|conversation|verse|spoke|said to|told)/i
Pattern3(text) ==
    AfterAlt(text, AnyPosition(text),
             {"quote", "dialogue", "conversation", "verse", "spoke", "said to", "told"}) # {}

\* /(explain|why|how|interpret|mean|significance|symbolize)/i
Pattern4(text) ==
    AfterAlt(text, AnyPosition(text),
             {"explain", "why", "how", "interpret", "mean", "significance", "symbolize"}) # {}

\* /(background|context|history|family|lineage|descendant)/i
Pattern5(text) ==
    AfterAlt(text, AnyPosition(text),
             {"background", "context", "history", "family", "lineage", "descendant"}) # {}

\* /(character|person|warrior|king|queen|sage)/i
Pattern6(text) ==
    AfterAlt(text, AnyPosition(text),
             {"character", "person", "warrior", "king", "queen", "sage"}) # {}

\* /(analyze|compare|contrast|relationship|symbolism)/i
Pattern7(text) ==
    AfterAlt(text, AnyPosition(text),
             {"analyze", "compare", "contrast", "relationship", "symbolism"}) # {}

\* The outcome of the seven tests, in the order of the if / else-if chain
RuleTests(text) ==
    <<Pattern1(text), Pattern2(text), Pattern3(text), Pattern4(text),
      Pattern5(text), Pattern6(text), Pattern7(text)>>

\* Mutant: plain `if` statements instead of `else if`, the last match wins
FirstMatch_LastWins(tests) ==
    IF tests[7] THEN 7 ELSE IF tests[6] THEN 6 ELSE IF tests[5] THEN 5
    ELSE IF tests[4] THEN 4 ELSE IF tests[3] THEN 3 ELSE IF tests[2] THEN 2
    ELSE IF tests[1] THEN 1 ELSE 0

\* The branch of the if / else-if chain that is taken, 0 for the final else
FirstMatch(tests) ==
    IF tests[1] THEN 1 ELSE IF tests[2] THEN 2 ELSE IF tests[3] THEN 3
    ELSE IF tests[4] THEN 4 ELSE IF tests[5] THEN 5 ELSE IF tests[6] THEN 6
    ELSE IF tests[7] THEN 7 ELSE 0

\* A weight is a decimal with one fractional digit, kept as <<tenths, 10>>.
Weights(e, sc, c) ==
    [encyclopedia |-> <<e, 10>>, scripture |-> <<sc, 10>>, commentary |-> <<c, 10>>]

\* The assignments of each branch
BranchOutcome(branch) ==
    CASE branch = 1 ->
           [categoryWeights |-> Weights(15, 5, 3), queryType |-> "factual", confidence |-> "high"]
      [] branch = 2 ->
           [categoryWeights |-> Weights(3, 15, 5), queryType |-> "dialogue", confidence |-> "high"]
      [] branch = 3 ->
           [categoryWeights |-> Weights(2, 14, 4), queryType |-> "quote-related", confidence |-> "medium"]
      [] branch = 4 ->
           [categoryWeights |-> Weights(5, 3, 15), queryType |-> "explanation", confidence |-> "high"]
      [] branch = 5 ->
           [categoryWeights |-> Weights(13, 3, 4), queryType |-> "background", confidence |-> "medium"]
      [] branch = 6 ->
           [categoryWeights |-> Weights(12, 8, 3), queryType |-> "character", confidence |-> "medium"]
      [] branch = 7 ->
           [categoryWeights |-> Weights(4, 3, 13), queryType |-> "analysis", confidence |-> "medium"]
      [] OTHER ->
           [categoryWeights |-> Weights(10, 10, 10), queryType |-> "general", confidence |-> "low"]

\* Math.max(weights.encyclopedia, weights.scripture, weights.commentary)
MaxWeight(weights) ==
    LET m == IF RatLess(weights.encyclopedia, weights.scripture)
             THEN weights.scripture ELSE weights.encyclopedia
    IN IF RatLess(m, weights.commentary) THEN weights.commentary ELSE m

\* Mutant: a primary category is named for high confidence only
PrimaryCategory_HighOnly(weights, confidence) ==
    IF confidence = "high"
    THEN IF RatEq(weights.encyclopedia, MaxWeight(weights)) THEN "encyclopedia"
         ELSE IF RatEq(weights.scripture, MaxWeight(weights)) THEN "scripture"
         ELSE IF RatEq(weights.commentary, MaxWeight(weights)) THEN "commentary"
         ELSE "null"
    ELSE "null"

\* let primaryCategory = null; if (confidence === 'high' || 'medium') { ... }
PrimaryCategory(weights, confidence) ==
    IF confidence = "high" \/ confidence = "medium"
    THEN IF RatEq(weights.encyclopedia, MaxWeight(weights)) THEN "encyclopedia"
         ELSE IF RatEq(weights.scripture, MaxWeight(weights)) THEN "scripture"
         ELSE IF RatEq(weights.commentary, MaxWeight(weights)) THEN "commentary"
         ELSE "null"
    ELSE "null"

\* QueryClassifier.classify
classify(query) ==
    LET normalizedQuery == TrimString(toLowerCase(query))
        outcome == BranchOutcome(FirstMatch(RuleTests(normalizedQuery)))
    IN [primaryCategory |-> PrimaryCategory(outcome.categoryWeights, outcome.confidence),
        categoryWeights |-> outcome.categoryWeights,
        confidence |-> outcome.confidence,
        queryType |-> outcome.queryType]

\* Object.entries(categoryWeights): the keys in the order of the literal
WeightEntries(weights) ==
    << <<"encyclopedia", weights.encyclopedia>>,
       <<"scripture", weights.scripture>>,
       <<"commentary", weights.commentary>> >>

\* QueryClassifier.getSuggestedCategories
getSuggestedCategories(query) ==
    LET sorted == SortDescending(WeightEntries(classify(query).categoryWeights), 1, <<>>)
    IN [i \in 1..Len(sorted) |-> sorted[i][1]]

\* QueryClassifier.shouldFilterByCategory
shouldFilterByCategory(query) ==
    LET c == classify(query)
    IN IF c.confidence = "high" THEN c.primaryCategory ELSE "null"

\* The queries explored: up to MaxWords words of Vocabulary separated by
\* single blanks, and the three queries of the file's usage example.
MaxWords == 4

Vocabulary ==
    {"What", "did", "does", "told", "explain", "family", "king", "compare"}

DocExamples ==
    {"Who is Arjuna?", "What did Krishna say to Arjuna?", "Explain the Bhagavad Gita"}

RECURSIVE JoinWords(_)
JoinWords(words) ==
    IF words = <<>> THEN ""
    ELSE IF Len(words) = 1 THEN words[1]
    ELSE words[1] \o " " \o JoinWords(Tail(words))

Queries == {JoinWords(w) : w \in SeqsUpTo(Vocabulary, MaxWords)} \cup DocExamples

VARIABLES
    pc,               \* the await point the invocation is suspended at
    limit,            \* queryKnowledge's `limit` argument
    hasTerms,         \* the expanded query keeps a term after cleaning
    embedStatus,      \* outcome of generateEmbedding: "none", "ok", "error"
    vectorDone,       \* searchVector's promise has resolved
    keywordDone,      \* searchKeyword's promise has resolved
    vectorResults,
    keywordResults,
    scores,           \* performRRF's scores map
    combinedResults,  \* performRRF's return value (topCandidates)
    judgeReply,       \* what flashModel.generateContent produced
    rerankedIds,
    finalResults,     \* after the fallback merge
    result,           \* the list queryKnowledge returns
    calls,            \* how often each collaborator was invoked
    expandedQuery,    \* the text given to generateEmbedding and searchKeyword
    candidateLimit    \* the LIMIT both searches are called with

VARIABLES
    perChildLookups,  \* lookups the per-child enrichWithParentContext issues
    cpc,              \* QueryClassifier: "off", "ready", "classified", "suggested", "filtered", "searched"
    cQuery,           \* the query given to QueryClassifier
    classification,   \* the QueryClassification classify returned
    suggested,        \* what getSuggestedCategories returned
    filterCategory,   \* what shouldFilterByCategory returned
    branchFilters,    \* the categoryFilter each search of queryKnowledge was given
    branchRows        \* the ids each of those searches could return

VARIABLES
    apc,              \* ask: "off", "idle", "retrieving", "generating", "streaming", "done"
    entry,            \* "askQuestion" (service call) or "ask" (controller, streaming)
    chunks,           \* what queryKnowledge returned: the similarity of each chunk
    serviceResult,    \* what askQuestion / askQuestionStream returned
    response,         \* what the controller sent
    generatorCalls    \* calls of generateAnswer / generateAnswerStream

VARIABLES
    cache,            \* EmbeddingCache.cache: entries in Map insertion order
    recency,          \* keys of cache, least recently used (get hit or set) first
    now,              \* Date.now()
    callers,          \* the generateEmbedding calls: where each is, its text, its
                      \* result, whether its get removed an expired entry, and
                      \* whether it missed while another call for its text was awaited
    evicted           \* the key the last set removed to make room, and the key
                      \* that was least recently used when it did

pipelineVars ==
    <<pc, limit, hasTerms, embedStatus, vectorDone, keywordDone,
      vectorResults, keywordResults, scores, combinedResults,
      judgeReply, rerankedIds, finalResults, result, calls,
      expandedQuery, candidateLimit, storeConfig, perChildLookups>>

classifierVars ==
    <<cpc, cQuery, classification, suggested, filterCategory, branchFilters, branchRows>>

askVars == <<apc, entry, chunks, serviceResult, response, generatorCalls>>

cacheVars == <<cache, recency, now, callers, evicted>>

vars == <<pipelineVars, classifierVars, askVars, cacheVars>>

Collaborators ==
    {"expandQuery", "classify", "generateEmbedding", "searchVector", "searchKeyword",
     "keywordStoreQuery", "rerankResults", "enrichWithParentContext",
     "parentStoreQuery"}

Bump(c, names) == [n \in Collaborators |-> IF n \in names THEN c[n] + 1 ELSE c[n]]

\* calls with the count of `name` raised by n
BumpBy(c, name, n) == [c EXCEPT ![name] = @ + n]

\* const candidateLimit = limit * 4
CandidateLimit(n) == n * 4

\* Mutant: the fused list is cut to the size of a branch's candidate pool
TopCandidateCount_Wide(n) == n * 4

\* performRRF(vectorResults, keywordResults, limit * 2)
TopCandidateCount(n) == n * 2

\* Rows of one branch: duplicate-free, at most `cap` (LIMIT $2) of them.
BranchResults(source, cap) ==
    {[i \in 1..Len(s) |-> [id |-> s[i], source_type |-> source]] :
        s \in DistinctSeqs(Ids, Min(MaxBranch, cap))}

\* The value of `classification` before classify has returned.
NoClassification ==
    [queryType |-> "none", confidence |-> "none", primaryCategory |-> "null",
     categoryWeights |-> Weights(0, 0, 0)]

\* Before the searches are called no branch has a filter or rows.
NoFilters == [vector |-> "null", keyword |-> "null"]

NoRows == [vector |-> {}, keyword |-> {}]

\* No QueryClassifier call is being followed.
ClassifierOff ==
    /\ cpc = "off"
    /\ cQuery = ""
    /\ classification = NoClassification
    /\ suggested = <<>>
    /\ filterCategory = "null"
    /\ branchFilters = NoFilters
    /\ branchRows = NoRows

\* The values of the pipeline's variables before queryKnowledge is called.
PipelineIdle ==
    /\ pc = "idle"
    /\ limit = 0
    /\ hasTerms = FALSE
    /\ embedStatus = "none"
    /\ vectorDone = FALSE
    /\ keywordDone = FALSE
    /\ vectorResults = <<>>
    /\ keywordResults = <<>>
    /\ scores = EmptyMap
    /\ combinedResults = <<>>
    /\ judgeReply = [threw |-> FALSE, text |-> <<>>]
    /\ rerankedIds = <<>>
    /\ finalResults = <<>>
    /\ result = <<>>
    /\ calls = [n \in Collaborators |-> 0]
    /\ expandedQuery = <<>>
    /\ candidateLimit = 0
    /\ storeConfig = "orphan"
    /\ perChildLookups = 0

\* Nothing has been returned by the service or sent by the controller yet.
NoServiceResult ==
    [outcome |-> "none", stream |-> "null", answer |-> "undefined",
     fallbackAnswer |-> "undefined", sources |-> <<>>, qualityWarning |-> FALSE]

NoResponse ==
    [status |-> 0, body |-> "none", sources |-> <<>>, headersSent |-> FALSE, ended |-> FALSE]

\* No request to the ask endpoint is being followed.
AskOff ==
    /\ apc = "off"
    /\ entry = "none"
    /\ chunks = <<>>
    /\ serviceResult = NoServiceResult
    /\ response = NoResponse
    /\ generatorCalls = 0

\* No set has removed an entry to make room.
NoEviction == [key |-> "none", lru |-> "none"]

\* The embedding cache is not being followed.
CacheOff ==
    /\ cache = <<>>
    /\ recency = <<>>
    /\ now = 0
    /\ callers = <<>>
    /\ evicted = NoEviction

Init ==
    /\ pc = "idle"
    /\ limit = 0
    /\ hasTerms = FALSE
    /\ embedStatus = "none"
    /\ vectorDone = FALSE
    /\ keywordDone = FALSE
    /\ vectorResults = <<>>
    /\ keywordResults = <<>>
    /\ scores = EmptyMap
    /\ combinedResults = <<>>
    /\ judgeReply = [threw |-> FALSE, text |-> <<>>]
    /\ rerankedIds = <<>>
    /\ finalResults = <<>>
    /\ result = <<>>
    /\ calls = [n \in Collaborators |-> 0]
    /\ expandedQuery = <<>>
    /\ candidateLimit = 0
    /\ storeConfig \in StoreConfigs
    /\ perChildLookups = 0
    /\ ClassifierOff
    /\ AskOff
    /\ CacheOff

\* queryKnowledge(query, limit) is called and suspends on expandQuery.
Call(n) ==
    /\ pc = "idle"
    /\ limit' = n
    /\ pc' = "expandQuery"
    /\ calls' = Bump(calls, {"expandQuery"})
    /\ UNCHANGED <<hasTerms, embedStatus, vectorDone, keywordDone, vectorResults,
                   keywordResults, scores, combinedResults, judgeReply,
                   rerankedIds, finalResults, result>>
    /\ UNCHANGED <<expandedQuery, candidateLimit, storeConfig, perChildLookups, classifierVars, askVars, cacheVars>>

\* expandQuery resolves (it catches its own failures); the query is
\* classified and generateEmbedding(expandedQuery) is awaited.
ExpandQueryReturns(expanded) ==
    /\ pc = "expandQuery"
    /\ expandedQuery' = expanded
    /\ hasTerms' = (CleanQuery(expanded) # <<>>)
    /\ pc' = "generateEmbedding"
    /\ calls' = Bump(calls, {"classify", "generateEmbedding"})
    /\ UNCHANGED <<limit, embedStatus, vectorDone, keywordDone, vectorResults,
                   keywordResults, scores, combinedResults, judgeReply,
                   rerankedIds, finalResults, result>>
    /\ UNCHANGED <<candidateLimit, storeConfig, perChildLookups, classifierVars, askVars, cacheVars>>

\* Mutant: the catch swallows the error and an empty list is returned
EmbeddingFails_Swallowed ==
    /\ pc = "generateEmbedding"
    /\ embedStatus' = "error"
    /\ pc' = "returned"
    /\ result' = <<>>
    /\ UNCHANGED <<limit, hasTerms, vectorDone, keywordDone, vectorResults,
                   keywordResults, scores, combinedResults, judgeReply,
                   rerankedIds, finalResults, calls>>
    /\ UNCHANGED <<expandedQuery, candidateLimit, storeConfig, perChildLookups, classifierVars, askVars, cacheVars>>

\* generateEmbedding rejects; queryKnowledge's catch logs and rethrows.
EmbeddingFails ==
    /\ pc = "generateEmbedding"
    /\ embedStatus' = "error"
    /\ pc' = "thrown"
    /\ UNCHANGED <<limit, hasTerms, vectorDone, keywordDone, vectorResults,
                   keywordResults, scores, combinedResults, judgeReply,
                   rerankedIds, finalResults, result, calls>>
    /\ UNCHANGED <<expandedQuery, candidateLimit, storeConfig, perChildLookups, classifierVars, askVars, cacheVars>>

\* Mutant: `await this.searchVector(...)` before searchKeyword is called
EmbeddingReturns_Sequential ==
    /\ pc = "generateEmbedding"
    /\ embedStatus' = "ok"
    /\ pc' = "search"
    /\ vectorDone' = FALSE
    /\ candidateLimit' = CandidateLimit(limit)
    /\ keywordDone' = ~hasTerms
    /\ keywordResults' = <<>>
    /\ calls' = Bump(calls, {"searchVector"})
    /\ UNCHANGED <<limit, hasTerms, vectorResults, scores, combinedResults,
                   judgeReply, rerankedIds, finalResults, result>>
    /\ UNCHANGED <<expandedQuery, storeConfig, perChildLookups, classifierVars, askVars, cacheVars>>

\* generateEmbedding resolves; Promise.all starts both searches.  searchKeyword
\* returns [] before querying the store when cleanQuery is empty.
EmbeddingReturns ==
    /\ pc = "generateEmbedding"
    /\ embedStatus' = "ok"
    /\ pc' = "search"
    /\ vectorDone' = FALSE
    /\ candidateLimit' = CandidateLimit(limit)
    /\ keywordDone' = ~hasTerms
    /\ keywordResults' = <<>>
    /\ calls' = Bump(calls, {"searchVector", "searchKeyword"}
                            \cup (IF hasTerms THEN {"keywordStoreQuery"} ELSE {}))
    /\ UNCHANGED <<limit, hasTerms, vectorResults, scores, combinedResults,
                   judgeReply, rerankedIds, finalResults, result>>
    /\ UNCHANGED <<expandedQuery, storeConfig, perChildLookups, classifierVars, askVars, cacheVars>>

\* The vector query resolves with at most candidateLimit (LIMIT $2) rows.
VectorSearchReturns(rows) ==
    /\ pc = "search"
    /\ ~vectorDone
    /\ rows \in BranchResults("vector", candidateLimit)
    /\ vectorResults' = rows
    /\ vectorDone' = TRUE
    /\ UNCHANGED <<pc, limit, hasTerms, embedStatus, keywordDone, keywordResults,
                   scores, combinedResults, judgeReply, rerankedIds,
                   finalResults, result, calls>>
    /\ UNCHANGED <<expandedQuery, candidateLimit, storeConfig, perChildLookups, classifierVars, askVars, cacheVars>>

\* The keyword query resolves with at most candidateLimit (LIMIT $2) rows.
KeywordSearchReturns(rows) ==
    /\ pc = "search"
    /\ ~keywordDone
    /\ rows \in BranchResults("keyword", candidateLimit)
    /\ keywordResults' = rows
    /\ keywordDone' = TRUE
    /\ UNCHANGED <<pc, limit, hasTerms, embedStatus, vectorDone, vectorResults,
                   scores, combinedResults, judgeReply, rerankedIds,
                   finalResults, result, calls>>
    /\ UNCHANGED <<expandedQuery, candidateLimit, storeConfig, perChildLookups, classifierVars, askVars, cacheVars>>

\* Mutant: no `if (combinedResults.length === 0) return []`
Fuse_NoShortCircuit ==
    /\ pc = "search"
    /\ vectorDone /\ keywordDone
    /\ scores' = RRFScores(vectorResults, keywordResults)
    /\ combinedResults' = performRRF(vectorResults, keywordResults, TopCandidateCount(limit))
    /\ pc' = "rerankResults"
    /\ calls' = Bump(calls, {"rerankResults"})
    /\ UNCHANGED <<limit, hasTerms, embedStatus, vectorDone, keywordDone,
                   vectorResults, keywordResults, judgeReply, rerankedIds,
                   finalResults, result>>
    /\ UNCHANGED <<expandedQuery, candidateLimit, storeConfig, perChildLookups, classifierVars, askVars, cacheVars>>

\* Promise.all has resolved: performRRF, then either `return []` or the call
\* of rerankResults(query, topCandidates, limit).
Fuse ==
    /\ pc = "search"
    /\ vectorDone /\ keywordDone
    /\ scores' = RRFScores(vectorResults, keywordResults)
    /\ combinedResults' = performRRF(vectorResults, keywordResults, TopCandidateCount(limit))
    /\ IF Len(combinedResults') = 0
       THEN /\ pc' = "returned"
            /\ result' = <<>>
            /\ calls' = calls
       ELSE /\ pc' = "rerankResults"
            /\ result' = result
            /\ calls' = Bump(calls, {"rerankResults"})
    /\ UNCHANGED <<limit, hasTerms, embedStatus, vectorDone, keywordDone,
                   vectorResults, keywordResults, judgeReply, rerankedIds,
                   finalResults>>
    /\ UNCHANGED <<expandedQuery, candidateLimit, storeConfig, perChildLookups, classifierVars, askVars, cacheVars>>

\* Mutant: a rejected judge call is issued once more
RerankReturns_Retry(reply) ==
    /\ pc = "rerankResults"
    /\ judgeReply' = reply
    /\ IF reply.threw /\ calls["rerankResults"] < 2
       THEN /\ pc' = "rerankResults"
            /\ calls' = Bump(calls, {"rerankResults"})
            /\ UNCHANGED <<rerankedIds, finalResults, perChildLookups>>
       ELSE /\ rerankedIds' = rerankResults(reply, combinedResults, limit).value
            /\ finalResults' =
                 FallbackMerge(MapToDocs(rerankedIds', combinedResults), combinedResults, limit)
            /\ pc' = "enrich"
            /\ calls' = BumpBy(Bump(calls, {"enrichWithParentContext"}),
                                "parentStoreQuery", ParentLookupCount(finalResults'))
            /\ perChildLookups' = PerChildLookupCount(finalResults')
    /\ UNCHANGED <<limit, hasTerms, embedStatus, vectorDone, keywordDone,
                   vectorResults, keywordResults, scores, combinedResults, result>>
    /\ UNCHANGED <<expandedQuery, candidateLimit, storeConfig, classifierVars, askVars, cacheVars>>

\* The judge call settles; rerankResults returns, the ids are mapped back to
\* documents, the fallback merge runs and enrichWithParentContext is called.
RerankReturns(reply) ==
    /\ pc = "rerankResults"
    /\ judgeReply' = reply
    /\ LET r == rerankResults(reply, combinedResults, limit)
       IN IF r.raised
          THEN /\ pc' = "thrown"
               /\ UNCHANGED <<rerankedIds, finalResults, calls, perChildLookups>>
          ELSE /\ rerankedIds' = r.value
               /\ finalResults' =
                    FallbackMerge(MapToDocs(r.value, combinedResults), combinedResults, limit)
               /\ pc' = "enrich"
               /\ calls' = BumpBy(Bump(calls, {"enrichWithParentContext"}),
                                   "parentStoreQuery", ParentLookupCount(finalResults'))
               /\ perChildLookups' = PerChildLookupCount(finalResults')
    /\ UNCHANGED <<limit, hasTerms, embedStatus, vectorDone, keywordDone,
                   vectorResults, keywordResults, scores, combinedResults, result>>
    /\ UNCHANGED <<expandedQuery, candidateLimit, storeConfig, classifierVars, askVars, cacheVars>>

\* enrichWithParentContext resolves and queryKnowledge returns its value.
EnrichReturns ==
    /\ pc = "enrich"
    /\ LET e == enrichWithParentContext(finalResults)
       IN IF e.raised
          THEN pc' = "thrown" /\ result' = result
          ELSE pc' = "returned" /\ result' = e.value
    /\ UNCHANGED <<limit, hasTerms, embedStatus, vectorDone, keywordDone,
                   vectorResults, keywordResults, scores, combinedResults,
                   judgeReply, rerankedIds, finalResults, calls>>
    /\ UNCHANGED <<expandedQuery, candidateLimit, storeConfig, perChildLookups, classifierVars, askVars, cacheVars>>

Next ==
    \/ \E n \in 1..MaxLimit : Call(n)
    \/ \E expanded \in ExpandedQueries : ExpandQueryReturns(expanded)
    \/ EmbeddingFails
    \/ EmbeddingReturns
    \/ \E rows \in BranchResults("vector", MaxBranch) : VectorSearchReturns(rows)
    \/ \E rows \in BranchResults("keyword", MaxBranch) : KeywordSearchReturns(rows)
    \/ Fuse
    \/ \E reply \in JudgeReplies : RerankReturns(reply)
    \/ EnrichReturns

Spec == Init /\ [][Next]_vars

\* ------------------------------------------- QueryClassifier on its own
\* A caller holding one query calls the three static methods in turn; no
\* queryKnowledge invocation is running.
InitClassifier ==
    /\ pc = "idle"
    /\ limit = 0
    /\ hasTerms = FALSE
    /\ embedStatus = "none"
    /\ vectorDone = FALSE
    /\ keywordDone = FALSE
    /\ vectorResults = <<>>
    /\ keywordResults = <<>>
    /\ scores = EmptyMap
    /\ combinedResults = <<>>
    /\ judgeReply = [threw |-> FALSE, text |-> <<>>]
    /\ rerankedIds = <<>>
    /\ finalResults = <<>>
    /\ result = <<>>
    /\ calls = [n \in Collaborators |-> 0]
    /\ expandedQuery = <<>>
    /\ candidateLimit = 0
    /\ storeConfig = "orphan"
    /\ perChildLookups = 0
    /\ cpc = "ready"
    /\ cQuery \in Queries
    /\ classification = NoClassification
    /\ suggested = <<>>
    /\ filterCategory = "null"
    /\ branchFilters = NoFilters
    /\ branchRows = NoRows
    /\ AskOff
    /\ CacheOff

\* QueryClassifier.classify(cQuery) returns.
Classify ==
    /\ cpc = "ready"
    /\ classification' = classify(cQuery)
    /\ cpc' = "classified"
    /\ UNCHANGED <<cQuery, suggested, filterCategory, branchFilters, branchRows, pipelineVars, askVars, cacheVars>>

\* QueryClassifier.getSuggestedCategories(cQuery) returns.
GetSuggestedCategories ==
    /\ cpc = "classified"
    /\ suggested' = getSuggestedCategories(cQuery)
    /\ cpc' = "suggested"
    /\ UNCHANGED <<cQuery, classification, filterCategory, branchFilters, branchRows, pipelineVars, askVars, cacheVars>>

\* QueryClassifier.shouldFilterByCategory(cQuery) returns.
ShouldFilterByCategory ==
    /\ cpc = "suggested"
    /\ filterCategory' = shouldFilterByCategory(cQuery)
    /\ cpc' = "filtered"
    /\ UNCHANGED <<cQuery, classification, suggested, branchFilters, branchRows, pipelineVars, askVars, cacheVars>>

\* The docCategory column of the stored chunks.
DocCategory == [A |-> "scripture", B |-> "encyclopedia", C |-> "commentary"]

\* Mutant: the category is used at medium confidence as well
CategoryFilter_Medium(c) ==
    IF c.confidence = "high" \/ c.confidence = "medium" THEN c.primaryCategory ELSE "null"

\* const categoryFilter = classification.confidence === 'high'
\*     ? classification.primaryCategory : null
CategoryFilter(c) ==
    IF c.confidence = "high" THEN c.primaryCategory ELSE "null"

\* The rows a search can select: `categoryFilter ? WHERE "docCategory" = $3 : ''`
\* (searchVector) and `categoryFilter ? AND "docCategory" = $3 : ''` (searchKeyword).
RowsInCategory(categoryFilter) ==
    IF categoryFilter = "null" THEN Ids
    ELSE {id \in Ids : DocCategory[id] = categoryFilter}

\* queryKnowledge computes categoryFilter from the classification and hands
\* it to searchVector and searchKeyword in one Promise.all.
SearchBranches ==
    /\ cpc = "filtered"
    /\ LET categoryFilter == CategoryFilter(classification)
       IN /\ branchFilters' = [vector |-> categoryFilter, keyword |-> categoryFilter]
          /\ branchRows' = [vector |-> RowsInCategory(categoryFilter),
                            keyword |-> RowsInCategory(categoryFilter)]
    /\ cpc' = "searched"
    /\ UNCHANGED <<cQuery, classification, suggested, filterCategory, pipelineVars, askVars, cacheVars>>

NextClassifier ==
    \/ Classify
    \/ GetSuggestedCategories
    \/ ShouldFilterByCategory
    \/ SearchBranches

SpecClassifier == InitClassifier /\ [][NextClassifier]_vars

\* ------------------------------------------- RagService and the ask endpoint
\* The chunks queryKnowledge hands to RagService, at most MaxChunks of them
\* (the service asks for 5).
MaxChunks == 3

\* chunk.similarity: a number, or undefined on a row that has no such column.
\* The numbers are exact rationals; the ones explored are binary fractions,
\* whose sums the code's doubles hold exactly.
Undefined == [numeric |-> FALSE, value |-> <<0, 1>>]

Number(num, den) == [numeric |-> TRUE, value |-> <<num, den>>]

Similarities == {Undefined, Number(1, 8), Number(1, 4), Number(1, 2)}

ChunkLists == SeqsUpTo({[similarity |-> sim] : sim \in Similarities}, MaxChunks)

\* export const MIN_AVERAGE_SIMILARITY = 0.25
MIN_AVERAGE_SIMILARITY == <<1, 4>>

LOW_QUALITY_RETRIEVAL_RESPONSE ==
    "That particular aspect of the Mahabharata requires deeper exploration. "
    \o "Could you perhaps rephrase your question, or would you like me to share "
    \o "what I know about a related topic from the epic?"

\* the answer askQuestion returns for an empty retrieval
NoInformationInKnowledgeBase ==
    "I'm sorry, I couldn't find any relevant information in the Knowledge Base."

\* the answer the controller sends when it got neither stream nor fallbackAnswer
NoInformation == "I'm sorry, I couldn't find any relevant information."

\* extractSourceMetadata: `similarity: chunk.similarity`
extractSourceMetadata(chunk) == [similarity |-> chunk.similarity]

MapSources(list) == [i \in 1..Len(list) |-> extractSourceMetadata(list[i])]

\* chunks.map(c => c.similarity).filter(s => typeof s === 'number' && !isNaN(s))
NumericSimilarities(list) ==
    LET numeric == SelectSeq(list, LAMBDA c : c.similarity.numeric)
    IN [i \in 1..Len(numeric) |-> numeric[i].similarity.value]

\* similarities.reduce((a, b) => a + b, 0)
RECURSIVE SumOf(_, _)
SumOf(values, i) ==
    IF i > Len(values) THEN <<0, 1>> ELSE RatAdd(values[i], SumOf(values, i + 1))

\* Mutant: a retrieval is sufficient as soon as one similarity is a number
isRetrievalQualitySufficient_AnyNumber(list) ==
    LET similarities == NumericSimilarities(list)
    IN IF Len(list) = 0 THEN [sufficient |-> FALSE, avgSimilarity |-> <<0, 1>>]
       ELSE IF Len(similarities) = 0 THEN [sufficient |-> FALSE, avgSimilarity |-> <<0, 1>>]
       ELSE [sufficient |-> TRUE, avgSimilarity |-> <<0, 1>>]

\* isRetrievalQualitySufficient
isRetrievalQualitySufficient(list) ==
    LET similarities == NumericSimilarities(list)
        total == SumOf(similarities, 1)
        avgSimilarity == <<total[1], total[2] * Len(similarities)>>
    IN IF Len(list) = 0 THEN [sufficient |-> FALSE, avgSimilarity |-> <<0, 1>>]
       ELSE IF Len(similarities) = 0 THEN [sufficient |-> FALSE, avgSimilarity |-> <<0, 1>>]
       ELSE [sufficient |-> ~RatLess(avgSimilarity, MIN_AVERAGE_SIMILARITY),
             avgSimilarity |-> avgSimilarity]

\* sources.filter(s => typeof s.similarity === 'number' && !isNaN && s.similarity > 0)
ValidSources(sources) ==
    SelectSeq(sources, LAMBDA src : src.similarity.numeric /\ src.similarity.value[1] > 0)

\* The service call rejected: nothing is returned to the caller.
Threw == [NoServiceResult EXCEPT !.outcome = "threw"]

\* res.status(500).json({ error: 'Internal Server Error' })
InternalServerError ==
    [status |-> 500, body |-> "Internal Server Error", sources |-> <<>>,
     headersSent |-> TRUE, ended |-> TRUE]

\* Mutant: an empty retrieval is answered like a failure
JsonAnswer_Error(r) ==
    IF r.fallbackAnswer # "undefined"
    THEN [status |-> 200, body |-> r.fallbackAnswer, sources |-> r.sources,
          headersSent |-> TRUE, ended |-> TRUE]
    ELSE InternalServerError

\* res.json({ answer, sources: sources || [] }) with
\* answer = fallbackAnswer || "I'm sorry, I couldn't find any relevant information."
JsonAnswer(r) ==
    [status |-> 200,
     body |-> IF r.fallbackAnswer # "undefined" THEN r.fallbackAnswer ELSE NoInformation,
     sources |-> r.sources, headersSent |-> TRUE, ended |-> TRUE]

\* What askQuestion / askQuestionStream return without calling the generator:
\* the empty-retrieval value or the low-quality value.
EarlyReturn(e, list) ==
    IF Len(list) = 0
    THEN [NoServiceResult EXCEPT
            !.outcome = "value",
            !.answer = IF e = "askQuestion" THEN NoInformationInKnowledgeBase ELSE "undefined"]
    ELSE [NoServiceResult EXCEPT
            !.outcome = "value",
            !.answer = IF e = "askQuestion" THEN LOW_QUALITY_RETRIEVAL_RESPONSE ELSE "undefined",
            !.fallbackAnswer = IF e = "ask" THEN LOW_QUALITY_RETRIEVAL_RESPONSE ELSE "undefined",
            !.sources = MapSources(list),
            !.qualityWarning = TRUE]

\* The generator is reached: a non-empty retrieval of sufficient quality.
ReachesGenerator(list) ==
    Len(list) > 0 /\ isRetrievalQualitySufficient(list).sufficient

InitAsk ==
    /\ PipelineIdle
    /\ ClassifierOff
    /\ CacheOff
    /\ apc = "idle"
    /\ entry = "none"
    /\ chunks = <<>>
    /\ serviceResult = NoServiceResult
    /\ response = NoResponse
    /\ generatorCalls = 0

\* ragService.askQuestion(question, mode) is called (the command-line script).
AskQuestionCalled ==
    /\ apc = "idle"
    /\ entry' = "askQuestion"
    /\ apc' = "retrieving"
    /\ UNCHANGED <<chunks, serviceResult, response, generatorCalls,
                   pipelineVars, classifierVars, cacheVars>>

\* POST to ask: without a question it answers 400, with one it awaits
\* ragService.askQuestionStream.
AskRequest(hasQuestion) ==
    /\ apc = "idle"
    /\ entry' = "ask"
    /\ IF hasQuestion
       THEN /\ apc' = "retrieving"
            /\ UNCHANGED response
       ELSE /\ apc' = "done"
            /\ response' = [status |-> 400, body |-> "Question is required",
                            sources |-> <<>>, headersSent |-> TRUE, ended |-> TRUE]
    /\ UNCHANGED <<chunks, serviceResult, generatorCalls,
                   pipelineVars, classifierVars, cacheVars>>

\* retrievalService.queryKnowledge rejects: the service call rejects, and the
\* controller's catch finds no header sent.
RetrievalThrows ==
    /\ apc = "retrieving"
    /\ serviceResult' = Threw
    /\ response' = IF entry = "ask" THEN InternalServerError ELSE response
    /\ apc' = "done"
    /\ UNCHANGED <<entry, chunks, generatorCalls, pipelineVars, classifierVars, cacheVars>>

\* retrievalService.queryKnowledge resolves with `list`.
RetrievalReturns(list) ==
    /\ apc = "retrieving"
    /\ chunks' = list
    /\ IF ReachesGenerator(list)
       THEN /\ generatorCalls' = generatorCalls + 1
            /\ apc' = "generating"
            /\ UNCHANGED <<serviceResult, response>>
       ELSE /\ serviceResult' = EarlyReturn(entry, list)
            /\ response' = IF entry = "ask" THEN JsonAnswer(EarlyReturn(entry, list))
                           ELSE response
            /\ apc' = "done"
            /\ UNCHANGED generatorCalls
    /\ UNCHANGED <<entry, pipelineVars, classifierVars, cacheVars>>

\* generateAnswer resolves (askQuestion returns the answer), or
\* generateAnswerStream resolves (the controller flushes its headers and
\* starts to iterate over the stream).
GeneratorReturns ==
    /\ apc = "generating"
    /\ IF entry = "askQuestion"
       THEN /\ serviceResult' = [NoServiceResult EXCEPT
                                   !.outcome = "value", !.answer = "generated",
                                   !.sources = MapSources(chunks)]
            /\ apc' = "done"
            /\ UNCHANGED response
       ELSE /\ serviceResult' = [NoServiceResult EXCEPT
                                   !.outcome = "value", !.stream = "stream",
                                   !.sources = MapSources(chunks)]
            /\ response' = [status |-> 200, body |-> "", sources |-> <<>>,
                            headersSent |-> TRUE, ended |-> FALSE]
            /\ apc' = "streaming"
    /\ UNCHANGED <<entry, chunks, generatorCalls, pipelineVars, classifierVars, cacheVars>>

\* generateAnswer / generateAnswerStream rejects.
GeneratorThrows ==
    /\ apc = "generating"
    /\ serviceResult' = Threw
    /\ response' = IF entry = "ask" THEN InternalServerError ELSE response
    /\ apc' = "done"
    /\ UNCHANGED <<entry, chunks, generatorCalls, pipelineVars, classifierVars, cacheVars>>

\* The stream is exhausted: the valid sources are appended and res.end() called.
StreamEnds ==
    /\ apc = "streaming"
    /\ response' = [response EXCEPT !.body = "generated",
                                    !.sources = ValidSources(serviceResult.sources),
                                    !.ended = TRUE]
    /\ apc' = "done"
    /\ UNCHANGED <<entry, chunks, serviceResult, generatorCalls,
                   pipelineVars, classifierVars, cacheVars>>

\* The stream rejects while being iterated: headers are sent, so res.end().
StreamThrows ==
    /\ apc = "streaming"
    /\ response' = [response EXCEPT !.ended = TRUE]
    /\ apc' = "done"
    /\ UNCHANGED <<entry, chunks, serviceResult, generatorCalls,
                   pipelineVars, classifierVars, cacheVars>>

NextAsk ==
    \/ AskQuestionCalled
    \/ \E hasQuestion \in BOOLEAN : AskRequest(hasQuestion)
    \/ RetrievalThrows
    \/ \E list \in ChunkLists : RetrievalReturns(list)
    \/ GeneratorReturns
    \/ GeneratorThrows
    \/ StreamEnds
    \/ StreamThrows

SpecAsk == InitAsk /\ [][NextAsk]_vars

\* ------------------------------------------- EmbeddingCache, generateEmbedding
\* new EmbeddingCache(1000, 60): the capacity explored, and the time to live
\* in ticks of the clock.
maxSize == 2

ttlMs == 1

\* Date.now() is followed up to this value.
MaxTime == ttlMs + 2

\* the generateEmbedding calls that can be in flight together
Callers == {1, 2}

\* The texts embedded: three of them normalize to "a".
Texts == {"a", " a\t ", "a \n", "b", "c"}

\* The texts two concurrent callers embed.
SharedTexts == {"a", " a\t ", "b", "c"}

\* text.replace(/<from>/g, to) for a literal <from>
RECURSIVE ReplaceAll(_, _, _)
ReplaceAll(text, from, to) ==
    IF Len(text) < Len(from) THEN text
    ELSE IF SubSeq(text, 1, Len(from)) = from
    THEN to \o ReplaceAll(SubSeq(text, Len(from) + 1, Len(text)), from, to)
    ELSE SubSeq(text, 1, 1) \o ReplaceAll(SubSeq(text, 2, Len(text)), from, to)

\* the length of the run of characters of `chars` that `text` starts with
RECURSIVE RunLength(_, _)
RunLength(text, chars) ==
    IF text = "" THEN 0
    ELSE IF SubSeq(text, 1, 1) \in chars
    THEN 1 + RunLength(SubSeq(text, 2, Len(text)), chars)
    ELSE 0

\* text.replace(/[chars]{min,}/g, to)
RECURSIVE CollapseRuns(_, _, _, _)
CollapseRuns(text, chars, min, to) ==
    IF text = "" THEN ""
    ELSE LET n == RunLength(text, chars)
         IN IF n >= min
            THEN to \o CollapseRuns(SubSeq(text, n + 1, Len(text)), chars, min, to)
            ELSE IF n > 0
            THEN SubSeq(text, 1, n)
                    \o CollapseRuns(SubSeq(text, n + 1, Len(text)), chars, min, to)
            ELSE SubSeq(text, 1, 1)
                    \o CollapseRuns(SubSeq(text, 2, Len(text)), chars, min, to)

\* normalizeTextForEmbedding
normalizeTextForEmbedding(text) ==
    LET paragraphs == CollapseRuns(text, {"\n"}, 3, "\n\n")
        blanks == CollapseRuns(paragraphs, {" ", "\t"}, 1, " ")
        afterNewline == ReplaceAll(blanks, "\n ", "\n")
        beforeNewline == ReplaceAll(afterNewline, " \n", "\n")
    IN TrimString(beforeNewline)

\* cleanText of each text explored
CleanText == [text \in Texts |-> normalizeTextForEmbedding(text)]

\* EmbeddingCache.hash: the first 16 hex digits of the text's sha256.  The
\* digest is not computed; distinct texts explored get distinct keys.
hash(text) == "sha256:" \o text

\* result.embedding.values of embeddingModel.embedContent(cleanText)
EmbedContent(cleanText) == "embedding of " \o cleanText

\* the position of `key` in the Map, 0 when it has no such entry
RECURSIVE IndexOfKey(_, _, _)
IndexOfKey(entries, key, i) ==
    IF i > Len(entries) THEN 0
    ELSE IF entries[i].key = key THEN i
    ELSE IndexOfKey(entries, key, i + 1)

HasKey(entries, key) == IndexOfKey(entries, key, 1) > 0

\* Map.delete(key)
DeleteKey(entries, key) == SelectSeq(entries, LAMBDA e : e.key # key)

\* Mutant: Map.set that adds an entry even when the key has one
SetKey_Append(entries, key, value) ==
    Append(entries, [key |-> key, embedding |-> value.embedding,
                     timestamp |-> value.timestamp])

\* Map.set(key, value): an existing key keeps its place in the order
SetKey(entries, key, value) ==
    LET stored == [key |-> key, embedding |-> value.embedding,
                   timestamp |-> value.timestamp]
        i == IndexOfKey(entries, key, 1)
    IN IF i > 0 THEN [entries EXCEPT ![i] = stored] ELSE Append(entries, stored)

\* `keys` with `key` moved to (or added at) the most recently used end
Touch(keys, key) == Append(SelectSeq(keys, LAMBDA x : x # key), key)

\* Mutant: an entry is served however old it is
IsExpired_Never(stored, time) == FALSE

\* Date.now() - entry.timestamp > this.ttlMs
IsExpired(stored, time) == time - stored.timestamp > ttlMs

\* EmbeddingCache.get(text) at time `time`: the value returned ("null" or
\* the embedding) and the Map afterwards.
CacheGet(entries, text, time) ==
    LET key == hash(text)
        i == IndexOfKey(entries, key, 1)
    IN IF i = 0 THEN [value |-> "null", cache |-> entries, expired |-> FALSE]
       ELSE IF IsExpired(entries[i], time)
       THEN [value |-> "null", cache |-> DeleteKey(entries, key), expired |-> TRUE]
       ELSE [value |-> entries[i].embedding, cache |-> entries, expired |-> FALSE]

\* this.cache.keys().next().value
OldestKey(entries) == entries[1].key

\* Mutant: set never makes room
NeedsRoom_Never(entries) == FALSE

\* this.cache.size >= this.maxSize
NeedsRoom(entries) == Len(entries) >= maxSize

\* EmbeddingCache.set(text, embedding) at time `time`: the Map afterwards.
CacheSet(entries, text, embedding, time) ==
    LET key == hash(text)
        room == IF NeedsRoom(entries) THEN DeleteKey(entries, OldestKey(entries))
                ELSE entries
    IN SetKey(room, key, [embedding |-> embedding, timestamp |-> time])

\* A caller that has not called generateEmbedding yet.
IdleCaller ==
    [pc |-> "idle", cleanText |-> "", result |-> "none",
     removedExpired |-> FALSE, concurrent |-> FALSE]

InitCache ==
    /\ PipelineIdle
    /\ ClassifierOff
    /\ AskOff
    /\ cache = <<>>
    /\ recency = <<>>
    /\ now = 0
    /\ callers = [c \in {1} |-> IdleCaller]
    /\ evicted = NoEviction

\* Time passes.
Tick ==
    /\ now < MaxTime
    /\ now' = now + 1
    /\ evicted' = NoEviction
    /\ UNCHANGED <<cache, recency, callers, pipelineVars, classifierVars, askVars>>

\* generateEmbedding(text) is called by c: the text is normalized and looked
\* up; a hit is returned, otherwise the call awaits embedContent.
StartCall(c, text) ==
    /\ callers[c].pc # "awaiting"
    /\ LET cleanText == CleanText[text]
           cached == CacheGet(cache, cleanText, now)
           others == {d \in DOMAIN callers \ {c} :
                        callers[d].pc = "awaiting" /\ callers[d].cleanText = cleanText}
       IN /\ cache' = cached.cache
          /\ recency' = IF cached.expired
                         THEN SelectSeq(recency, LAMBDA x : x # hash(cleanText))
                         ELSE IF cached.value # "null" THEN Touch(recency, hash(cleanText))
                         ELSE recency
          /\ callers' = [d \in DOMAIN callers |->
                IF d = c
                THEN [pc |-> IF cached.value # "null" THEN "returned" ELSE "awaiting",
                      cleanText |-> cleanText,
                      result |-> IF cached.value # "null" THEN cached.value ELSE "none",
                      removedExpired |-> cached.expired,
                      concurrent |-> cached.value = "null" /\ others # {}]
                ELSE IF cached.value = "null" /\ d \in others
                THEN [callers[d] EXCEPT !.concurrent = TRUE]
                ELSE callers[d]]
    /\ evicted' = NoEviction
    /\ UNCHANGED <<now, pipelineVars, classifierVars, askVars>>

\* embedContent resolves for c: the embedding is stored and returned.
ProviderReturns(c) ==
    /\ callers[c].pc = "awaiting"
    /\ LET cleanText == callers[c].cleanText
           embedding == EmbedContent(cleanText)
       IN /\ cache' = CacheSet(cache, cleanText, embedding, now)
          /\ evicted' = IF NeedsRoom(cache)
                         THEN [key |-> OldestKey(cache), lru |-> Head(recency)]
                         ELSE NoEviction
          /\ recency' = Touch(IF NeedsRoom(cache)
                               THEN SelectSeq(recency, LAMBDA x : x # OldestKey(cache))
                               ELSE recency,
                              hash(cleanText))
          /\ callers' = [callers EXCEPT ![c].pc = "returned", ![c].result = embedding,
                                        ![c].removedExpired = FALSE]
    /\ UNCHANGED <<now, pipelineVars, classifierVars, askVars>>

\* embedContent rejects for c: generateEmbedding logs and rethrows.
ProviderFails(c) ==
    /\ callers[c].pc = "awaiting"
    /\ callers' = [callers EXCEPT ![c].pc = "threw", ![c].concurrent = FALSE]
    /\ evicted' = NoEviction
    /\ UNCHANGED <<cache, recency, now, pipelineVars, classifierVars, askVars>>

\* One caller at a time: every generateEmbedding call ends before the next.
NextCache ==
    \/ Tick
    \/ \E text \in Texts : StartCall(1, text)
    \/ ProviderReturns(1)
    \/ ProviderFails(1)

SpecCache == InitCache /\ [][NextCache]_vars

\* Two callers whose calls interleave at the await of embedContent.
InitConcurrent ==
    /\ PipelineIdle
    /\ ClassifierOff
    /\ AskOff
    /\ cache = <<>>
    /\ recency = <<>>
    /\ now = 0
    /\ callers = [c \in Callers |-> IdleCaller]
    /\ evicted = NoEviction

NextConcurrent ==
    \/ Tick
    \/ \E c \in Callers, text \in SharedTexts : StartCall(c, text)
    \/ \E c \in Callers : ProviderReturns(c)
    \/ \E c \in Callers : ProviderFails(c)

SpecConcurrent == InitConcurrent /\ [][NextConcurrent]_vars

\* ============================================================ properties
\* performRRF has run in this invocation
Fused == pc \in {"rerankResults", "enrich", "returned"}

\* rerankResults has returned and the fallback merge has run
Merged == pc = "enrich" \/ (pc = "returned" /\ calls["rerankResults"] > 0)

CandidateIds == Range(IdsOf(combinedResults))

\* The elements of the JSON array in the judge's text, <<>> if there is none
JudgeItems ==
    IF \E i \in 1..Len(judgeReply.text) : judgeReply.text[i].kind = "array"
    THEN judgeReply.text[CHOOSE i \in 1..Len(judgeReply.text) :
                            judgeReply.text[i].kind = "array"].items
    ELSE <<>>

\* The judge's ids that name a candidate, in the judge's order
ValidJudgeItems == SelectSeq(JudgeItems, LAMBDA id : id \in CandidateIds)

InList(list, id) == \E i \in 1..Len(list) : list[i].id = id

\* zero-based position of id in list
PositionIn(list, id) == (CHOOSE i \in 1..Len(list) : list[i].id = id) - 1

NoDuplicates(s) == \A i, j \in 1..Len(s) : i # j => s[i] # s[j]

\* ---- C1 -----------------------------------------------------------------
\* C1 (fallback completeness, as claimed): whenever rerankResults yields
\* fewer than `limit` ids, the list held after the fallback merge has exactly
\* min(limit, number of fused candidates) entries.
C1_FallbackCompleteness ==
    (Merged /\ Len(rerankedIds) < limit)
        => Len(finalResults) = Min(limit, Len(combinedResults))

\* ---- C2 -----------------------------------------------------------------
\* The judge gave nothing usable: the call threw, the text holds no JSON
\* array, or no element of the array is the id of a candidate.
NoUsableIds == judgeReply.threw \/ Len(ValidJudgeItems) = 0

\* C2: rerankResults never raises to queryKnowledge, and when the judge gave
\* nothing usable it returns the ids of the first topN candidates in fused
\* order.
C2_RerankNeverRaises ==
    /\ calls["rerankResults"] > 0 => pc # "thrown"
    /\ (Merged /\ NoUsableIds) =>
          rerankedIds = [i \in 1..Min(limit, Len(combinedResults)) |-> combinedResults[i].id]

\* a failed judge call met more candidates than topN
C2_Witness ==
    /\ Merged
    /\ judgeReply.threw
    /\ Len(combinedResults) > limit
    /\ Len(rerankedIds) = limit

\* ---- C3 -----------------------------------------------------------------
\* C3: every id rerankResults returns is the id of a candidate, there are at
\* most topN of them, and when the judge named at least one candidate they
\* are the judge's valid ids in the judge's order.
C3_RerankValidated ==
    Merged =>
        /\ \A i \in 1..Len(rerankedIds) : rerankedIds[i] \in CandidateIds
        /\ Len(rerankedIds) <= limit
        /\ ~NoUsableIds => rerankedIds = SubSeq(ValidJudgeItems, 1, Len(rerankedIds))

\* the judge named an unknown id and candidates in an order that differs
\* from the fused order
C3_Witness ==
    /\ Merged
    /\ \E i \in 1..Len(JudgeItems) : JudgeItems[i] \in UnknownIds
    /\ Len(rerankedIds) > 0
    /\ rerankedIds[1] # combinedResults[1].id
    /\ rerankedIds = ValidJudgeItems

\* ---- C4 -----------------------------------------------------------------
\* The judge returned ["X", "Y"], X unknown and Y a candidate
JudgeSaidXY ==
    /\ ~judgeReply.threw
    /\ Len(JudgeItems) = 2
    /\ JudgeItems[1] \notin CandidateIds
    /\ JudgeItems[2] \in CandidateIds

\* Y followed by the other candidates in fused order, up to n entries
YThenFused(y, n) ==
    Slice(<<y>> \o SelectSeq(IdsOf(combinedResults), LAMBDA id : id # y), n)

\* C4 as claimed: on ["X", "Y"] the output of rerankResults is Y followed by
\* ids filled from the fused order, up to topN entries.
C4_GatewayFills ==
    (Merged /\ JudgeSaidXY) => rerankedIds = YThenFused(JudgeItems[2], limit)

\* C4 as amended: on ["X", "Y"] rerankResults does not throw and returns Y
\* alone; the list after queryKnowledge's fallback merge is Y followed by
\* the other candidates in fused order, up to `limit` entries.
C4_GatewayThenMerge ==
    /\ (calls["rerankResults"] > 0 /\ JudgeSaidXY) => pc # "thrown"
    /\ (Merged /\ JudgeSaidXY) =>
          /\ rerankedIds = <<JudgeItems[2]>>
          /\ IdsOf(finalResults) = YThenFused(JudgeItems[2], limit)

\* Y was not first in fused order and the merge filled in behind it
C4_Witness ==
    /\ Merged
    /\ JudgeSaidXY
    /\ Len(finalResults) >= 2
    /\ combinedResults[1].id # JudgeItems[2]

\* ---- C5 -----------------------------------------------------------------
BothBranchesEmpty ==
    vectorDone /\ keywordDone /\ vectorResults = <<>> /\ keywordResults = <<>>

\* C5: when both branches return empty lists, queryKnowledge returns the
\* empty list and neither rerankResults nor enrichWithParentContext (nor its
\* store lookup) is invoked.
C5_EmptyShortCircuit ==
    BothBranchesEmpty =>
        /\ pc \in {"search", "returned"}
        /\ pc = "returned" => result = <<>>
        /\ calls["rerankResults"] = 0
        /\ calls["enrichWithParentContext"] = 0
        /\ calls["parentStoreQuery"] = 0

\* the store was queried by both branches, both came back empty, and the
\* invocation has returned
C5_Witness ==
    /\ BothBranchesEmpty
    /\ calls["keywordStoreQuery"] = 1
    /\ pc = "returned"

\* ---- C6 -----------------------------------------------------------------
\* C6: if the embedding provider fails, queryKnowledge ends with the error
\* thrown to its caller (no list is returned) and no vector search, keyword
\* search, rerank or enrichment was started.
C6_EmbeddingFailureIsFatal ==
    embedStatus = "error" =>
        /\ pc = "thrown"
        /\ calls["searchVector"] = 0
        /\ calls["searchKeyword"] = 0
        /\ calls["keywordStoreQuery"] = 0
        /\ calls["rerankResults"] = 0
        /\ calls["enrichWithParentContext"] = 0
        /\ calls["parentStoreQuery"] = 0

C6_Witness == embedStatus = "error" /\ calls["generateEmbedding"] = 1

\* ---- C7 -----------------------------------------------------------------
\* 1/(60 + p + 1) for every branch list that holds id at position p
ClaimedScore(id) ==
    RatAdd(IF InList(vectorResults, id)
           THEN <<1, 60 + PositionIn(vectorResults, id) + 1>> ELSE <<0, 1>>,
           IF InList(keywordResults, id)
           THEN <<1, 60 + PositionIn(keywordResults, id) + 1>> ELSE <<0, 1>>)

\* id is at the same position p in both branch lists
DualAt(id, p) ==
    /\ InList(vectorResults, id) /\ PositionIn(vectorResults, id) = p
    /\ InList(keywordResults, id) /\ PositionIn(keywordResults, id) = p

\* id is in exactly one branch list, at position q
SingleAt(id, q) ==
    \/ /\ InList(vectorResults, id) /\ ~InList(keywordResults, id)
       /\ PositionIn(vectorResults, id) = q
    \/ /\ InList(keywordResults, id) /\ ~InList(vectorResults, id)
       /\ PositionIn(keywordResults, id) = q

\* d precedes s in performRRF's output whenever s is in it
PlacedAhead(d, s) ==
    InList(combinedResults, s) =>
        /\ InList(combinedResults, d)
        /\ PositionIn(combinedResults, d) < PositionIn(combinedResults, s)

\* C7: with k = 60 every id's fusion score is the sum of 1/(k + p + 1) over
\* the branch lists that hold it at position p: 2/(k+p+1) when it is at p in
\* both, 1/(k+p+1) when it is at p in one; a dual-branch id at p scores
\* strictly higher than, and is placed ahead of, a single-branch id at the
\* same or a later position.
C7_FusionScores ==
    Fused =>
        /\ Range(scores.keys) =
              {id \in Ids : InList(vectorResults, id) \/ InList(keywordResults, id)}
        /\ \A id \in Range(scores.keys) : RatEq(scores.val[id], ClaimedScore(id))
        /\ \A id \in Range(scores.keys) : \A p \in 0..(MaxBranch - 1) :
              /\ DualAt(id, p) => RatEq(scores.val[id], <<2, 60 + p + 1>>)
              /\ SingleAt(id, p) => RatEq(scores.val[id], <<1, 60 + p + 1>>)
        /\ \A d, s \in Range(scores.keys) : \A p, q \in 0..(MaxBranch - 1) :
              (DualAt(d, p) /\ SingleAt(s, q) /\ q >= p) =>
                  /\ RatLess(scores.val[s], scores.val[d])
                  /\ PlacedAhead(d, s)

\* a dual-branch id at position 1 in both lists and a single-branch id at
\* position 2, both in the output
C7_Witness ==
    /\ Fused
    /\ \E d, s \in Ids :
          /\ DualAt(d, 1) /\ SingleAt(s, 2)
          /\ InList(combinedResults, d) /\ InList(combinedResults, s)

\* ---- C8 -----------------------------------------------------------------
InBothBranches(id) == InList(vectorResults, id) /\ InList(keywordResults, id)

Occurrences(list, id) == Cardinality({i \in 1..Len(list) : list[i].id = id})

\* C8 as claimed: performRRF's output has no two entries with the same id,
\* an id present in both branch lists appears exactly once, every output id
\* occurs in a branch list, and the output has at most `limit` entries.
C8_DedupExactlyOnce ==
    Fused =>
        /\ NoDuplicates(IdsOf(combinedResults))
        /\ \A id \in Ids : InBothBranches(id) => Occurrences(combinedResults, id) = 1
        /\ \A id \in CandidateIds : InList(vectorResults, id) \/ InList(keywordResults, id)
        /\ Len(combinedResults) <= limit * 2

\* C8 as amended: performRRF's output has no two entries with the same id,
\* every output id occurs in a branch list, the output has at most `limit`
\* entries, and an id present in both branch lists appears at most once:
\* exactly once when it is among the `limit` first ids by descending score
\* (always when there are at most `limit` distinct ids).
C8_DedupInvariant ==
    Fused =>
        /\ NoDuplicates(IdsOf(combinedResults))
        /\ \A id \in CandidateIds : InList(vectorResults, id) \/ InList(keywordResults, id)
        /\ Len(combinedResults) <= limit * 2
        /\ Len(combinedResults) = Min(limit * 2, Len(scores.keys))
        /\ \A id \in Ids : InBothBranches(id) =>
              /\ Occurrences(combinedResults, id) <= 1
              /\ Len(scores.keys) <= limit * 2 => Occurrences(combinedResults, id) = 1
              /\ Occurrences(combinedResults, id) = 0 =>
                    \A other \in CandidateIds : ~RatLess(scores.val[other], scores.val[id])

\* an id found by both branches is in the output once while truncation cut
\* another id off
C8_Witness ==
    /\ Fused
    /\ \E id \in Ids : InBothBranches(id) /\ Occurrences(combinedResults, id) = 1
    /\ Len(scores.keys) > Len(combinedResults)

\* ---- C9 -----------------------------------------------------------------
\* Order of first insertion into the scores map: the vector list in order,
\* then the keyword-only ids in keyword order.
FirstSeenBefore(a, b) ==
    \/ /\ InList(vectorResults, a) /\ InList(vectorResults, b)
       /\ PositionIn(vectorResults, a) < PositionIn(vectorResults, b)
    \/ InList(vectorResults, a) /\ ~InList(vectorResults, b)
    \/ /\ ~InList(vectorResults, a) /\ ~InList(vectorResults, b)
       /\ PositionIn(keywordResults, a) < PositionIn(keywordResults, b)

\* C9: performRRF's output is in descending score order, and ids of equal
\* score appear in the order of their first occurrence in the vector list,
\* keyword-only ids after them in keyword-list order.
C9_TieBreakOrder ==
    Fused =>
        \A i, j \in 1..Len(combinedResults) : i < j =>
            LET a == combinedResults[i].id
                b == combinedResults[j].id
            IN /\ ~RatLess(scores.val[a], scores.val[b])
               /\ RatEq(scores.val[a], scores.val[b]) => FirstSeenBefore(a, b)

\* a vector-only id and a keyword-only id tie and the vector one comes first
C9_Witness ==
    /\ Fused
    /\ Len(combinedResults) = 2
    /\ RatEq(scores.val[combinedResults[1].id], scores.val[combinedResults[2].id])
    /\ ~InList(vectorResults, combinedResults[2].id)

\* ---- C10 ----------------------------------------------------------------
ScenarioABxBC ==
    /\ Fused
    /\ IdsOf(vectorResults) = <<"A", "B">>
    /\ IdsOf(keywordResults) = <<"B", "C">>

\* C10 as claimed: for vector [A, B] and keyword [B, C], B is first, B
\* scores 1/61 + 1/62, and A and C score 1/61 each.
C10_ScenarioAsClaimed ==
    ScenarioABxBC =>
        /\ combinedResults[1].id = "B"
        /\ RatEq(scores.val["B"], RatAdd(<<1, 61>>, <<1, 62>>))
        /\ RatEq(scores.val["A"], <<1, 61>>)
        /\ RatEq(scores.val["C"], <<1, 61>>)

\* C10 as amended: for vector [A, B] and keyword [B, C], B is first, ahead
\* of A and C; B scores 1/61 + 1/62, A (position 0 of the vector list) scores
\* 1/61 and C (position 1 of the keyword list) scores 1/62, so the fused
\* order is B, A, C cut to `limit` entries.
C10_ScenarioBAC ==
    ScenarioABxBC =>
        /\ combinedResults[1].id = "B"
        /\ RatEq(scores.val["B"], RatAdd(<<1, 61>>, <<1, 62>>))
        /\ RatEq(scores.val["A"], <<1, 61>>)
        /\ RatEq(scores.val["C"], <<1, 62>>)
        /\ IdsOf(combinedResults) = Slice(<<"B", "A", "C">>, limit * 2)

C10_Witness == ScenarioABxBC /\ Len(combinedResults) = 3

\* ---- C11 ----------------------------------------------------------------
\* The fused ids the judge did not name, in fused order
FusedNotReranked ==
    SelectSeq(IdsOf(combinedResults), LAMBDA id : id \notin Range(rerankedIds))

\* The part of the final list behind the reranked candidates
FilledPart ==
    SubSeq(IdsOf(finalResults), Len(rerankedIds) + 1, Len(finalResults))

\* C11 (fallback merge ordering): after the merge the final list starts with
\* the reranked candidates in the judge's order; only when these are fewer
\* than `limit` it continues with the fused candidates in fused order,
\* without the ids already in the list, up to `limit` entries or the end of
\* the fused list; every entry is a fused candidate.
C11_FallbackMergeOrdering ==
    Merged =>
        /\ Len(finalResults) >= Len(rerankedIds)
        /\ SubSeq(IdsOf(finalResults), 1, Len(rerankedIds)) = rerankedIds
        /\ IF Len(rerankedIds) < limit
           THEN FilledPart = Slice(FusedNotReranked, limit - Len(rerankedIds))
           ELSE FilledPart = <<>>
        /\ Range(IdsOf(finalResults)) \subseteq CandidateIds

\* A merge that skipped a fused candidate the judge had named, filled one
\* behind it and stopped at `limit` with a fused candidate left over.
C11_Witness ==
    /\ Merged
    /\ rerankedIds # <<>>
    /\ Len(rerankedIds) < limit
    /\ Len(finalResults) = limit
    /\ Len(FusedNotReranked) > Len(FilledPart)
    /\ \E i, j \in 1..Len(combinedResults) :
          /\ i < j
          /\ combinedResults[i].id \in Range(rerankedIds)
          /\ combinedResults[j].id \in Range(FilledPart)

\* ---- C12 ----------------------------------------------------------------
\* Position of an await point in the stage order; "returned" and "thrown"
\* both end the invocation.
StageRank(p) ==
    CASE p = "idle" -> 0
      [] p = "expandQuery" -> 1
      [] p = "generateEmbedding" -> 2
      [] p = "search" -> 3
      [] p = "rerankResults" -> 4
      [] p = "enrich" -> 5
      [] OTHER -> 6

\* Whatever a stage has started, the stage before it has completed, and no
\* collaborator has been called twice.
StagesInOrder ==
    /\ calls["generateEmbedding"] > 0 => calls["classify"] = 1
    /\ calls["searchVector"] > 0 \/ calls["searchKeyword"] > 0 => embedStatus = "ok"
    /\ calls["rerankResults"] > 0 => vectorDone /\ keywordDone
    /\ pc = "rerankResults" =>
          combinedResults = performRRF(vectorResults, keywordResults, limit * 2)
    /\ calls["enrichWithParentContext"] > 0 => calls["rerankResults"] = 1
    /\ pc = "enrich" =>
          finalResults =
              FallbackMerge(MapToDocs(rerankedIds, combinedResults), combinedResults, limit)
    /\ pc = "returned" /\ result # <<>> => calls["enrichWithParentContext"] = 1
    /\ \A c \in Collaborators : calls[c] <= 1

\* A step moves to a later await point; only the two searches of DualSearch
\* resolve without leaving theirs, and they call nothing.
StageAdvances ==
    /\ StageRank(pc') >= StageRank(pc)
    /\ StageRank(pc') = StageRank(pc) => pc = "search" /\ calls' = calls
    /\ \A c \in Collaborators : calls'[c] >= calls[c]

\* C12 (linear stages): within one queryKnowledge invocation the stages run
\* in the order Classify, EmbedQuery, DualSearch, Fuse, Rerank, FallbackMerge,
\* Enrich, Return; a stage starts only after the one before it completed,
\* the embedding provider and the relevance judge are each called at most
\* once, and no stage is entered a second time.
C12_LinearStages == [](StagesInOrder) /\ [][StageAdvances]_vars

\* An invocation that went through every stage and returned results.
C12_Witness ==
    /\ pc = "returned"
    /\ result # <<>>
    /\ \A c \in {"classify", "generateEmbedding", "searchVector", "searchKeyword",
                  "rerankResults", "enrichWithParentContext"} : calls[c] = 1

\* ---- C13 ----------------------------------------------------------------
\* performRRF has run on the two branch results
FusionStarted ==
    \/ pc \in {"rerankResults", "enrich"}
    \/ pc = "returned" /\ embedStatus = "ok"
    \/ scores # EmptyMap
    \/ combinedResults # <<>>

\* C13 (concurrent branches): searchVector and searchKeyword are both called
\* before the result of either is awaited, so while queryKnowledge waits on
\* Promise.all both have been started whichever of them has resolved, and
\* performRRF runs only after both have resolved.
C13_BranchesConcurrent ==
    /\ calls["searchVector"] = calls["searchKeyword"]
    /\ pc = "search" => calls["searchVector"] = 1 /\ calls["searchKeyword"] = 1
    /\ vectorDone \/ keywordResults # <<>> =>
          calls["searchVector"] = 1 /\ calls["searchKeyword"] = 1
    /\ FusionStarted => vectorDone /\ keywordDone

\* The keyword query has resolved with rows while the vector query, called
\* first, is still pending.
C13_Witness ==
    /\ pc = "search"
    /\ calls["keywordStoreQuery"] = 1
    /\ keywordDone /\ keywordResults # <<>>
    /\ ~vectorDone

\* ---- C14 ----------------------------------------------------------------
\* The distinct ids the two branches returned
BranchIds == Range(IdsOf(vectorResults)) \cup Range(IdsOf(keywordResults))

\* rerankResults has been called; its `documents` argument is combinedResults
JudgeCalled == calls["rerankResults"] > 0

\* C14 (candidate pool sizes): for every limit >= 1 each search is called
\* with LIMIT 4 x limit and returns no more rows than that; the judge is
\* given the fused list cut to 2 x limit entries, so it never receives more
\* than 2 x limit candidates, and it receives fewer candidates than the
\* branches returned whenever these returned more than 2 x limit distinct ids.
C14_CandidatePoolSizes ==
    /\ calls["searchVector"] > 0 =>
          /\ limit >= 1
          /\ candidateLimit = 4 * limit
          /\ Len(vectorResults) <= 4 * limit
          /\ Len(keywordResults) <= 4 * limit
    /\ JudgeCalled =>
          /\ Len(combinedResults) <= 2 * limit
          /\ Len(combinedResults) = Min(2 * limit, Cardinality(BranchIds))
          /\ CandidateIds \subseteq BranchIds
          /\ Cardinality(BranchIds) > 2 * limit => CandidateIds # BranchIds

\* The branches returned three distinct ids for limit 1 and the judge was
\* given two of them.
C14_Witness ==
    /\ JudgeCalled
    /\ limit = 1
    /\ Cardinality(BranchIds) = 3
    /\ Len(combinedResults) = 2

\* ---- C15 ----------------------------------------------------------------
\* enrichWithParentContext has been called with finalResults
EnrichCalled == calls["enrichWithParentContext"] > 0

\* The child results with a parentid among finalResults (N of the claim)
ChildResults == {i \in 1..Len(finalResults) : IsChildWithParent(finalResults[i])}

\* More children than distinct parents: at least two results share a parent
ChildrenShareParents ==
    Cardinality(ParentIdsOf(finalResults)) < Cardinality(ChildResults)

\* C15 (batch enrichment, as claimed): for N child results sharing M < N
\* distinct parents, enrichWithParentContext issues exactly one parent lookup,
\* in the batched implementation and in the one of
\* services/retrieval.service.ts alike, and every child whose parent id
\* resolves is returned with parent_content and parent_metadata.
C15_SingleParentLookup ==
    EnrichCalled /\ ChildrenShareParents =>
        /\ calls["parentStoreQuery"] = 1
        /\ perChildLookups = 1
        /\ pc = "returned" =>
              \A i \in ChildResults :
                  Store[finalResults[i].id].parentid \in DOMAIN Store =>
                      /\ result[i].parent_content # "undefined"
                      /\ result[i].parent_metadata # "undefined"

\* ---- C16 ----------------------------------------------------------------
\* enrichWithParentContext has resolved and queryKnowledge returned its list
Enriched == pc = "returned" /\ EnrichCalled

\* A child result whose parentid matches no stored chunk
IsOrphan(doc) == IsChildWithParent(doc) /\ Store[doc.id].parentid \notin DOMAIN Store

HasNoParentFields(doc) ==
    doc.parent_content = "undefined" /\ doc.parent_metadata = "undefined"

\* C16 (orphans pass through): enrichWithParentContext does not fail on an
\* unresolved parent; a child whose parentid matches no stored chunk is
\* returned without parent_content, a result that is not a child or has no
\* parentid gets no parent fields, and the returned list has the same
\* results in the same order and number as the list passed in.
C16_OrphansPassThrough ==
    /\ EnrichCalled => pc # "thrown"
    /\ Enriched =>
          /\ Len(result) = Len(finalResults)
          /\ \A i \in 1..Len(finalResults) :
                /\ result[i].id = finalResults[i].id
                /\ result[i].source_type = finalResults[i].source_type
                /\ IsOrphan(finalResults[i]) => HasNoParentFields(result[i])
                /\ ~IsChildWithParent(finalResults[i]) => HasNoParentFields(result[i])

\* A returned list holding an orphan, a chunk that is not a child, and a
\* child that did get its parent's content.
C16_Witness ==
    /\ Enriched
    /\ \E i, j, l \in 1..Len(result) :
          /\ IsOrphan(finalResults[i]) /\ HasNoParentFields(result[i])
          /\ Store[result[j].id].type # "child" /\ HasNoParentFields(result[j])
          /\ result[l].parent_content # "undefined"

\* ---- C17 ----------------------------------------------------------------
\* Nothing but search-operator characters and blanks: no term is left once
\* the operators are removed and the text is trimmed
NoTermsLeft(text) ==
    \A i \in 1..Len(text) : text[i] \in OperatorChars \cup {" "}

\* C17 (empty keyword query): when the text given to searchKeyword has no
\* term left after the characters | & : * ! are removed and blanks are
\* trimmed, searchKeyword resolves with the empty list, the store is not
\* queried for keywords and nothing is raised; fusion then works on the
\* vector rows alone.
C17_EmptyKeywordQuery ==
    calls["searchKeyword"] > 0 /\ NoTermsLeft(expandedQuery) =>
        /\ keywordDone
        /\ keywordResults = <<>>
        /\ calls["keywordStoreQuery"] = 0
        /\ pc # "thrown"
        /\ FusionStarted =>
              /\ combinedResults = performRRF(vectorResults, <<>>, 2 * limit)
              /\ IdsOf(combinedResults) = Slice(IdsOf(vectorResults), 2 * limit)

\* A query of operator characters only, for which queryKnowledge still
\* returned results, all of them from the vector search.
C17_Witness ==
    /\ \E i \in 1..Len(expandedQuery) : expandedQuery[i] \in OperatorChars
    /\ NoTermsLeft(expandedQuery)
    /\ pc = "returned"
    /\ result # <<>>
    /\ calls["searchKeyword"] = 1
    /\ \A i \in 1..Len(result) : result[i].source_type = "vector"

\* ---- C18 ----------------------------------------------------------------
\* classify has returned for cQuery
Classified == cpc \in {"classified", "suggested", "filtered"}

\* The rules whose pattern matches the lowercased, trimmed query
MatchingRules ==
    LET tests == RuleTests(TrimString(toLowerCase(cQuery)))
    IN {r \in 1..7 : tests[r]}

Least(S) == CHOOSE r \in S : \A q \in S : r <= q

\* weight triple, query type and confidence of a classification
Verdict(c) ==
    <<c.categoryWeights.encyclopedia, c.categoryWeights.scripture,
      c.categoryWeights.commentary, c.queryType, c.confidence>>

\* what rule r assigns when no rule before it matches
VerdictOfRule(r) ==
    Verdict([categoryWeights |-> BranchOutcome(r).categoryWeights,
             queryType |-> BranchOutcome(r).queryType,
             confidence |-> BranchOutcome(r).confidence])

\* C18 (first match wins): classify tests its seven rules in a fixed order;
\* the weight triple, query type and confidence it returns are those of the
\* first rule that matches, whatever later rules match as well; when no
\* rule matches the three weights are equal, the type is 'general' and the
\* confidence is 'low'.
C18_FirstMatchWins ==
    Classified =>
        LET matching == MatchingRules
        IN
        IF matching = {}
        THEN /\ RatEq(classification.categoryWeights.encyclopedia,
                      classification.categoryWeights.scripture)
             /\ RatEq(classification.categoryWeights.scripture,
                      classification.categoryWeights.commentary)
             /\ classification.queryType = "general"
             /\ classification.confidence = "low"
        ELSE Verdict(classification) = VerdictOfRule(Least(matching))

\* A query matched by two rules with different verdicts, classified by the
\* earlier one.
C18_Witness ==
    /\ Classified
    /\ LET matching == MatchingRules
       IN \E r \in matching :
             /\ r > Least(matching)
             /\ VerdictOfRule(r) # VerdictOfRule(Least(matching))
             /\ Verdict(classification) # VerdictOfRule(r)

\* ---- C19 ----------------------------------------------------------------
Categories == <<"encyclopedia", "scripture", "commentary">>

\* place of a category in the priority encyclopedia, scripture, commentary
Priority(c) == CHOOSE i \in 1..3 : Categories[i] = c

\* the categories whose weight no other weight exceeds
MaximalCategories(weights) ==
    {c \in Range(Categories) :
        \A d \in Range(Categories) : ~RatLess(weights[c], weights[d])}

\* C19 (primary category): classify returns a non-null primaryCategory
\* exactly when the confidence is 'high' or 'medium'; a non-null
\* primaryCategory has maximal weight and, among the categories of maximal
\* weight, comes first in the priority encyclopedia, scripture, commentary.
C19_PrimaryCategory ==
    Classified =>
        /\ classification.primaryCategory # "null"
              <=> classification.confidence \in {"high", "medium"}
        /\ classification.primaryCategory # "null" =>
              /\ classification.primaryCategory
                    \in MaximalCategories(classification.categoryWeights)
              /\ \A c \in MaximalCategories(classification.categoryWeights) :
                    Priority(classification.primaryCategory) <= Priority(c)

\* A medium-confidence classification whose primary category is not the
\* first of the priority order.
C19_Witness ==
    /\ Classified
    /\ classification.confidence = "medium"
    /\ classification.primaryCategory \in {"scripture", "commentary"}

\* ---- C20 ----------------------------------------------------------------
\* "What did <name> say ...": the query starts with these words
IsWhatDidNameSay(query) ==
    LET text == TrimString(toLowerCase(query))
        aux == AfterAlt(text, AfterRun(text, AfterAlt(text, {1}, {"what"}), SpaceChars),
                        {"did"})
        name == AfterRun(text, AfterRun(text, aux, SpaceChars), WordChars)
    IN AfterAlt(text, AfterRun(text, name, SpaceChars), {"say"}) # {}

\* C20 (dialogue question, as claimed): for a question of the form "What
\* did <name> say ...", such as "What did Krishna say to Arjuna?",
\* getSuggestedCategories returns scripture, commentary, encyclopedia.
C20_DialogueIsScripture ==
    cpc \in {"suggested", "filtered"} /\ IsWhatDidNameSay(cQuery) =>
        suggested = <<"scripture", "commentary", "encyclopedia">>

\* ---- C24 ----------------------------------------------------------------
\* C24 (similarity on every result, as claimed): every result queryKnowledge
\* returns carries a similarity score, whichever branch found it, results
\* found by the keyword branch alone and results appended by the fallback
\* merge included.
C24_EveryResultHasSimilarity ==
    pc = "returned" => \A i \in 1..Len(result) : HasSimilarity(result[i])

\* ---- C26 ----------------------------------------------------------------
\* the record performRRF returned for id
FusedRecord(id) == combinedResults[PositionIn(combinedResults, id) + 1]

\* C26 (first-seen record): for an id in both branch lists performRRF keeps
\* the vector-branch record, the one with the similarity field, and scores
\* it with the sum of both contributions; for an id in the keyword list
\* only it keeps the keyword-branch record.  Stated of the list performRRF
\* has just returned; nothing changes the list or the scores afterwards.
C26_FirstSeenRecord ==
    pc = "rerankResults" =>
        \A id \in CandidateIds :
            /\ InBothBranches(id) =>
                  /\ FusedRecord(id).source_type = "vector"
                  /\ HasSimilarity(FusedRecord(id))
                  /\ RatEq(scores.val[id], ClaimedScore(id))
                  /\ RatLess(<<1, 60 + PositionIn(vectorResults, id) + 1>>, scores.val[id])
            /\ ~InList(vectorResults, id) =>
                  /\ FusedRecord(id).source_type = "keyword"
                  /\ ~HasSimilarity(FusedRecord(id))

\* A fused list holding an id from both branches and a keyword-only id.
C26_Witness ==
    /\ pc = "rerankResults"
    /\ \E a, b \in CandidateIds :
          /\ InBothBranches(a)
          /\ ~InList(vectorResults, b)

\* ---- C30 ----------------------------------------------------------------
\* C30 (distinct results, as claimed): the list queryKnowledge returns never
\* holds a chunk id twice and never has more than `limit` entries, whatever
\* the judge replied and whatever the branches returned.
C30_DistinctWithinLimit ==
    pc = "returned" =>
        /\ NoDuplicates(IdsOf(result))
        /\ Len(result) <= limit

\* ---- C21 ----------------------------------------------------------------
\* C21 (category filter gated on confidence): shouldFilterByCategory returns
\* a category only at confidence 'high' and null at 'medium' and 'low';
\* queryKnowledge filters a search only at confidence 'high', by the primary
\* category, and gives both branches the same filter; at confidence 'low'
\* both branches search every category and have rows to return.
C21_FilterGatedOnConfidence ==
    /\ cpc \in {"filtered", "searched"} =>
          /\ filterCategory # "null" => classification.confidence = "high"
          /\ classification.confidence \in {"medium", "low"} => filterCategory = "null"
          /\ classification.confidence = "high" =>
                filterCategory = classification.primaryCategory
    /\ cpc = "searched" =>
          /\ branchFilters.vector = branchFilters.keyword
          /\ branchRows.vector = branchRows.keyword
          /\ branchFilters.vector # "null" =>
                /\ classification.confidence = "high"
                /\ branchFilters.vector = classification.primaryCategory
                /\ \A id \in branchRows.vector : DocCategory[id] = branchFilters.vector
          /\ classification.confidence \in {"medium", "low"} =>
                /\ branchFilters = NoFilters
                /\ branchRows.vector = Ids
                /\ branchRows.keyword = Ids

\* Both searches were filtered by the category of a high-confidence query.
C21_Witness ==
    /\ cpc = "searched"
    /\ classification.confidence = "high"
    /\ branchFilters.vector \in {"scripture", "encyclopedia", "commentary"}
    /\ branchRows.vector # Ids

\* ---- C25 ----------------------------------------------------------------
\* the service call of this request resolved with an empty retrieval
EmptyRetrieval == serviceResult.outcome = "value" /\ chunks = <<>>

\* retrieval or generation rejected before the controller sent a header
FailedBeforeHeaders == apc = "done" /\ serviceResult.outcome = "threw"

\* C25 (no information is not an error): on an empty retrieval the ask
\* endpoint answers with status 200, the apology answer and no sources and
\* never calls the answer generator; when retrieval or generation throws
\* before a header is sent it answers with status 500; a 500 is sent only
\* after a throw and the apology only after an empty retrieval.
C25_NoInformationIsNotAnError ==
    entry = "ask" =>
        /\ EmptyRetrieval =>
              /\ response.status = 200
              /\ response.body = NoInformation
              /\ response.sources = <<>>
              /\ generatorCalls = 0
        /\ FailedBeforeHeaders =>
              /\ response.status = 500
              /\ response.body = "Internal Server Error"
        /\ response.status = 500 => serviceResult.outcome = "threw"
        /\ response.body = NoInformation => EmptyRetrieval

\* The endpoint has answered an empty retrieval.
C25_Witness ==
    /\ entry = "ask"
    /\ apc = "done"
    /\ EmptyRetrieval
    /\ response.body = NoInformation

\* ---- C28 ----------------------------------------------------------------
\* the fixed low-quality response was returned, with the sources
LowQualityReturned ==
    /\ serviceResult.outcome = "value"
    /\ serviceResult.sources = MapSources(chunks)
    /\ IF entry = "askQuestion"
       THEN serviceResult.answer = LOW_QUALITY_RETRIEVAL_RESPONSE
       ELSE serviceResult.fallbackAnswer = LOW_QUALITY_RETRIEVAL_RESPONSE

\* the list has a number among its similarities and their average reaches
\* MIN_AVERAGE_SIMILARITY
AverageSufficient ==
    LET values == NumericSimilarities(chunks)
        total == SumOf(values, 1)
    IN /\ Len(values) > 0
       /\ total[1] * MIN_AVERAGE_SIMILARITY[2]
            >= MIN_AVERAGE_SIMILARITY[1] * total[2] * Len(values)

\* the service call has got its retrieval and finished, without a throw
ServiceFinished ==
    /\ entry \in {"askQuestion", "ask"}
    /\ apc \in {"streaming", "done"}
    /\ serviceResult.outcome = "value"

\* C28 (quality gate, as claimed): the generator is called only for a
\* non-empty list whose numeric similarities average at least
\* MIN_AVERAGE_SIMILARITY; otherwise the fixed low-quality response is
\* returned with the sources and the generator is never called.
C28_QualityGateAsClaimed ==
    /\ generatorCalls > 0 => (chunks # <<>> /\ AverageSufficient)
    /\ (ServiceFinished /\ ~(chunks # <<>> /\ AverageSufficient)) =>
          /\ LowQualityReturned
          /\ generatorCalls = 0

\* C28 (quality gate): the generator is called only for a non-empty list
\* whose numeric similarities average at least MIN_AVERAGE_SIMILARITY.  A
\* non-empty list below that, or without a numeric similarity, gets the
\* fixed low-quality response with the sources; an empty list gets the
\* no-information answer (askQuestion) or a null stream without fallback
\* answer (askQuestionStream), with empty sources; the generator is called
\* in neither case.
C28_QualityGate ==
    /\ generatorCalls > 0 => (chunks # <<>> /\ AverageSufficient)
    /\ generatorCalls <= 1
    /\ (ServiceFinished /\ chunks # <<>> /\ ~AverageSufficient) =>
          /\ LowQualityReturned
          /\ serviceResult.stream = "null"
          /\ serviceResult.qualityWarning
          /\ generatorCalls = 0
    /\ (ServiceFinished /\ chunks = <<>>) =>
          /\ serviceResult.sources = <<>>
          /\ serviceResult.stream = "null"
          /\ serviceResult.fallbackAnswer = "undefined"
          /\ serviceResult.answer =
                (IF entry = "askQuestion" THEN NoInformationInKnowledgeBase ELSE "undefined")
          /\ generatorCalls = 0
    /\ (ServiceFinished /\ chunks # <<>> /\ AverageSufficient) => generatorCalls = 1

\* A list with a numeric similarity below the threshold and one without a
\* number got the low-quality response.
C28_Witness ==
    /\ ServiceFinished
    /\ Len(chunks) = 2
    /\ chunks[1].similarity = Number(1, 8)
    /\ chunks[2].similarity = Undefined
    /\ LowQualityReturned
    /\ generatorCalls = 0

\* ---- C22 ----------------------------------------------------------------
KeysOf(entries) == {entries[i].key : i \in 1..Len(entries)}

\* c's embedContent resolves in this step, so c's set runs
SetStep(c) == callers[c].pc = "awaiting" /\ callers'[c].pc = "returned"

\* What a set of `key` may do to the Map: on a full Map the first-inserted
\* entry goes and no other, on any other Map nothing goes; `key` is stored.
SetKeepsCapacity(key) ==
    IF Len(cache) >= maxSize
    THEN /\ KeysOf(cache') = (KeysOf(cache) \ {cache[1].key}) \cup {key}
         /\ DeleteKey(cache', key) = DeleteKey(DeleteKey(cache, cache[1].key), key)
         /\ evicted'.key = cache[1].key
    ELSE /\ KeysOf(cache') = KeysOf(cache) \cup {key}
         /\ DeleteKey(cache', key) = DeleteKey(cache, key)
         /\ evicted' = NoEviction

\* C22 (capacity): the cache never holds more than maxSize entries, and a
\* set on a full cache removes exactly one entry, the first inserted one,
\* before it stores.
C22_CapacityKept ==
    /\ [](Len(cache) <= maxSize)
    /\ [][\A c \in DOMAIN callers :
             SetStep(c) => SetKeepsCapacity(hash(callers[c].cleanText))]_vars

\* A set has just made room in a cache that is full again.
C22_Witness ==
    /\ evicted.key # "none"
    /\ Len(cache) = maxSize
    /\ ~HasKey(cache, evicted.key)

\* ---- C23 ----------------------------------------------------------------
\* What the get of generateEmbedding(text) by c did in this step.
GetServesFresh(c, text) ==
    LET cleanText == CleanText[text]
        key == hash(cleanText)
        i == IndexOfKey(cache, key, 1)
    IN /\ callers'[c].pc = "returned" =>
            /\ i > 0
            /\ now - cache[i].timestamp <= ttlMs
            /\ callers'[c].result = cache[i].embedding
            /\ cache[i].embedding = EmbedContent(cleanText)
            /\ cache' = cache
       /\ (i > 0 /\ now - cache[i].timestamp > ttlMs) =>
            /\ ~HasKey(cache', key)
            /\ callers'[c].pc = "awaiting"
            /\ callers'[c].result = "none"
       /\ (i > 0 /\ now - cache[i].timestamp <= ttlMs) =>
            /\ callers'[c].pc = "returned"
            /\ callers'[c].result = cache[i].embedding
       /\ i = 0 => callers'[c].pc = "awaiting"

\* C23 (no expired entry is served): a get returns an embedding only if it
\* was stored for the same text at most ttlMs ago; a get that finds an older
\* entry removes it and returns null, so generateEmbedding calls the
\* provider; a get within ttlMs of a stored text returns the stored
\* embedding and the provider is not called.
C23_NoExpiredEntryServed ==
    [][\A c \in DOMAIN callers, text \in Texts :
          StartCall(c, text) => GetServesFresh(c, text)]_vars

\* A call found the entry of its text expired, removed it and awaits the
\* provider; the entry of another text is still stored.
C23_Witness ==
    \E c \in DOMAIN callers :
        /\ callers[c].removedExpired
        /\ callers[c].pc = "awaiting"
        /\ ~HasKey(cache, hash(callers[c].cleanText))
        /\ Len(cache) > 0

\* ---- C27 ----------------------------------------------------------------
\* C27 (least recently used, as claimed): the entry a set removes from a
\* full cache is the least recently used one, where a get that returns an
\* entry and a set that stores it both count as a use.
C27_EvictsLeastRecentlyUsed ==
    evicted.key # "none" => evicted.key = evicted.lru

\* ---- C29 ----------------------------------------------------------------
\* both calls have returned, for the same normalized text
BothReturned ==
    /\ \A c \in Callers : callers[c].pc = "returned"
    /\ \A c, d \in Callers : callers[c].cleanText = callers[d].cleanText

\* the cache holds the text of the two calls exactly once and is within
\* capacity, and both calls returned the text's embedding
OneEntryForBoth ==
    \A c \in Callers :
        /\ Cardinality({i \in 1..Len(cache) :
                          cache[i].key = hash(callers[c].cleanText)}) = 1
        /\ Len(cache) <= maxSize
        /\ callers[c].result = EmbedContent(callers[c].cleanText)

\* C29 (concurrent calls, as claimed): after two concurrent calls for one
\* text the cache holds one entry for it, within capacity, and both calls
\* returned an embedding; a call whose provider request failed has left
\* the cache contents unchanged.
C29_ConcurrentCallsAsClaimed ==
    /\ BothReturned => OneEntryForBoth
    /\ \A c \in Callers : callers[c].pc = "threw" => ~callers[c].removedExpired

\* the only change a get makes to the Map: removing the expired entry of
\* the text asked for
GetOnlyRemovesExpired(text) ==
    LET key == hash(CleanText[text])
        i == IndexOfKey(cache, key, 1)
    IN \/ cache' = cache
       \/ /\ i > 0
          /\ now - cache[i].timestamp > ttlMs
          /\ cache' = DeleteKey(cache, key)

\* C29 (concurrent calls): after two concurrent calls for one text the
\* cache holds one entry for it, within capacity, and both calls returned an
\* embedding.  A call whose provider request fails stores nothing and
\* returns nothing: the failure leaves the cache as it is, and the only
\* change the call has made is the removal, by its get, of the expired
\* entry of its own text.
C29_ConcurrentCalls ==
    /\ [](BothReturned => OneEntryForBoth)
    /\ [](\A c \in Callers : callers[c].pc = "threw" => callers[c].result = "none")
    /\ [][\A c \in Callers : ProviderFails(c) => cache' = cache]_vars
    /\ [][\A c \in Callers, text \in SharedTexts :
             StartCall(c, text) => GetOnlyRemovesExpired(text)]_vars

\* Two calls for one text missed the cache together and both have returned.
C29_Witness ==
    /\ BothReturned
    /\ \A c \in Callers : callers[c].concurrent
    /\ OneEntryForBoth

====
